---- MODULE Spec2Model ----
(***************************************************************************)
(* Trade-screening pipeline of tsp0918/AI_validation: the run ledger and   *)
(* orchestrator (runner.py, orchestrator.py), the rule matching and the    *)
(* patent retrieval stages (steps/matrix_match.py, patent_retrieve.py) and *)
(* the two-list aggregator (two_list.py), over a transactional store.      *)
(*                                                                         *)
(* Text is a sequence of characters.  Latin letters stand for themselves;  *)
(* the CJK characters of the seed data are written with ASCII names        *)
(* ("ro" "ko" = U+9732 U+5149, "bi" "sa" "ka" "ku" = U+5FAE U+7D30 U+52A0  *)
(* U+5DE5); "FW(" ")FW" "FW," "FW." "FW-" are the full-width parentheses,  *)
(* comma, full stop and hyphen-minus, "hbar" is U+2015, "minus" U+2212,    *)
(* "nakaguro" is U+30FB, "nl" a newline.                                   *)
(***************************************************************************)
EXTENDS Integers, Sequences, FiniteSets, TLC

(***************************************************************************)
(* Generic helpers                                                         *)
(***************************************************************************)
Range(s) == {s[k] : k \in DOMAIN s}

Max(S) == IF S = {} THEN 0 ELSE CHOOSE m \in S : \A n \in S : n <= m

RECURSIVE Flatten(_)
Flatten(ss) == IF ss = <<>> THEN <<>> ELSE Head(ss) \o Flatten(Tail(ss))

RECURSIVE SetToSeq(_)
SetToSeq(S) ==
  IF S = {} THEN <<>>
  ELSE LET m == CHOOSE a \in S : \A b \in S : a <= b
       IN <<m>> \o SetToSeq(S \ {m})

Take(s, n) == IF Len(s) <= n THEN s ELSE SubSeq(s, 1, n)

(***************************************************************************)
(* Characters, in code point order                                         *)
(***************************************************************************)
Alphabet == <<"nl", " ", "(", ")", ",", "-", ".", "F", "K", "b", "f", "k",
              "r", "hbar", "minus", "nakaguro", "ko", "ka", "ku", "bi", "sa",
              "ro", "FW(", ")FW", "FW,", "FW-", "FW.">>

CharOrd(c) == CHOOSE k \in DOMAIN Alphabet : Alphabet[k] = c

LatinChars == {"K", "F", "b", "f", "k", "r"}

JpChars == {"nakaguro", "ku", "ka", "bi", "sa", "ro", "ko"}

SpaceChars == {"nl", " "}

(***************************************************************************)
(* _normalize_text                                                         *)
(***************************************************************************)
lower(c) == IF c = "K" THEN "k" ELSE IF c = "F" THEN "f" ELSE c

replace(c) ==
  IF c = "FW(" THEN "("
  ELSE IF c = ")FW" THEN ")"
  ELSE IF c = "FW," THEN ","
  ELSE IF c = "FW." THEN "."
  ELSE IF c = "nakaguro" THEN " "
  ELSE IF c \in {"FW-", "hbar", "minus"} THEN "-"
  ELSE c

RECURSIVE collapse_ws(_, _)
collapse_ws(s, pendingSpace) ==
  IF s = <<>> THEN <<>>
  ELSE IF Head(s) \in SpaceChars THEN collapse_ws(Tail(s), TRUE)
  ELSE (IF pendingSpace THEN <<" ">> ELSE <<>>) \o <<Head(s)>>
         \o collapse_ws(Tail(s), FALSE)

RECURSIVE lstrip(_)
lstrip(s) ==
  IF s = <<>> THEN <<>>
  ELSE IF Head(s) \in SpaceChars THEN lstrip(Tail(s)) ELSE s

\* the replacements made after the white space was collapsed
_normalize_text_replace_last(s) ==
  LET t == collapse_ws(lstrip([k \in DOMAIN s |-> lower(s[k])]), FALSE)
  IN [k \in DOMAIN t |-> replace(t[k])]

_normalize_text(s) ==
  LET t == [k \in DOMAIN s |-> replace(lower(s[k]))]
  IN collapse_ws(lstrip(t), FALSE)

(***************************************************************************)
(* _ngrams, _tokenize                                                      *)
(***************************************************************************)
\* only a block of exactly n characters gives an n-gram
_ngrams_whole(s, n) == IF Len(s) = n THEN <<s>> ELSE <<>>

_ngrams(s, n) ==
  IF s = <<>> \/ Len(s) < n THEN <<>>
  ELSE [i \in 1..(Len(s) - n + 1) |-> SubSeq(s, i, i + n - 1)]

\* maximal runs of characters of class C, left to right (re.findall / finditer)
RECURSIVE Runs(_, _, _)
Runs(s, C, cur) ==
  IF s = <<>> THEN (IF cur = <<>> THEN <<>> ELSE <<cur>>)
  ELSE IF Head(s) \in C THEN Runs(Tail(s), C, Append(cur, Head(s)))
  ELSE (IF cur = <<>> THEN <<>> ELSE <<cur>>) \o Runs(Tail(s), C, <<>>)

RECURSIVE Dedupe(_, _)
Dedupe(toks, seen) ==
  IF toks = <<>> THEN <<>>
  ELSE IF Head(toks) = <<>> \/ Head(toks) \in seen THEN Dedupe(Tail(toks), seen)
  ELSE <<Head(toks)>> \o Dedupe(Tail(toks), seen \cup {Head(toks)})

_tokenize(text) ==
  LET t == _normalize_text(text)
      latin == Runs(t, LatinChars, <<>>)
      blocks == Runs(t, JpChars, <<>>)
      grams == Flatten([k \in DOMAIN blocks |->
                          _ngrams(blocks[k], 2) \o _ngrams(blocks[k], 3)])
  IN IF t = <<>> THEN <<>> ELSE Dedupe(latin \o grams, {})

(***************************************************************************)
(* _binary_cosine.  The float score len(inter) / sqrt(len(A) * len(B)) is  *)
(* kept exactly as the pair n = |A \cap B|, d = |A| * |B|: score = n /     *)
(* sqrt(d), compared by cross-multiplying squares.                         *)
(***************************************************************************)
RECURSIVE LexLess(_, _)
LexLess(a, b) ==
  IF a = <<>> THEN b # <<>>
  ELSE IF b = <<>> THEN FALSE
  ELSE IF Head(a) = Head(b) THEN LexLess(Tail(a), Tail(b))
  ELSE CharOrd(Head(a)) < CharOrd(Head(b))

\* sort key (-len(x), x)
TokenBefore(a, b) == Len(a) > Len(b) \/ (Len(a) = Len(b) /\ LexLess(a, b))

RECURSIVE SortTokens(_)
SortTokens(S) ==
  IF S = {} THEN <<>>
  ELSE LET m == CHOOSE a \in S : \A b \in S \ {a} : TokenBefore(a, b)
       IN <<m>> \o SortTokens(S \ {m})

MatchedLimit == 40

\* the intersection counted over the list a_tokens, repeated tokens included
_binary_cosine_counting_repeats(a_tokens, b_tokens) ==
  LET A == Range(a_tokens)
      B == Range(b_tokens)
      inter == A \cap B
      hits == SelectSeq(a_tokens, LAMBDA t : t \in B)
  IN IF A = {} \/ B = {}
     THEN [score |-> [n |-> 0, d |-> 1], matched |-> <<>>]
     ELSE [score |-> [n |-> Len(hits),
                      d |-> Cardinality(A) * Cardinality(B)],
           matched |-> Take(SortTokens(inter), MatchedLimit)]

\* the matched tokens in the order of a_tokens instead of sorted
_binary_cosine_in_list_order(a_tokens, b_tokens) ==
  LET A == Range(a_tokens)
      B == Range(b_tokens)
      inter == A \cap B
  IN IF A = {} \/ B = {}
     THEN [score |-> [n |-> 0, d |-> 1], matched |-> <<>>]
     ELSE [score |-> [n |-> Cardinality(inter),
                      d |-> Cardinality(A) * Cardinality(B)],
           matched |-> Take(Dedupe(SelectSeq(a_tokens, LAMBDA t : t \in B), {}),
                            MatchedLimit)]

_binary_cosine(a_tokens, b_tokens) ==
  LET A == Range(a_tokens)
      B == Range(b_tokens)
      inter == A \cap B
  IN IF A = {} \/ B = {}
     THEN [score |-> [n |-> 0, d |-> 1], matched |-> <<>>]
     ELSE [score |-> [n |-> Cardinality(inter),
                      d |-> Cardinality(A) * Cardinality(B)],
           matched |-> Take(SortTokens(inter), MatchedLimit)]

\* s1 > s2, s > 0 and s >= th for scores n/sqrt(d) and a threshold num/den
ScoreGreater(s1, s2) == s1.n * s1.n * s2.d > s2.n * s2.n * s1.d

ScorePositive(s) == s.n > 0

\* s > th instead of s >= th
ScoreAbove(s, th) == s.n * s.n * th.den * th.den > th.num * th.num * s.d

ScoreAtLeast(s, th) == s.n * s.n * th.den * th.den >= th.num * th.num * s.d

(***************************************************************************)
(* Stored data the stages read.  Usage requirements, catalog rules and     *)
(* patents are rows of a fixed universe; the tables hold a subset of ids.  *)
(***************************************************************************)
UsageRows ==
  <<[id |-> 1, transaction_id |-> 1, source |-> "core",
     text |-> <<"K", "r", "F", "ro", "ko", "bi", "sa">>],
    [id |-> 2, transaction_id |-> 1, source |-> "expanded",
     text |-> <<"bi", "sa", "ka", "ku", "FW(", ")FW">>],
    [id |-> 3, transaction_id |-> 2, source |-> "core",
     text |-> <<" ", "ro", "ko", "nl">>],
    [id |-> 4, transaction_id |-> 2, source |-> "analyst_added",
     text |-> <<"ka", "ku", "nakaguro", "k", "r", "f">>],
    [id |-> 5, transaction_id |-> 2, source |-> "expanded",
     text |-> <<"ro">>]>>

UsageIds == DOMAIN UsageRows

RuleRows ==
  <<[id |-> 1, regime |-> "JP_FX", item_no |-> <<"b">>, version |-> "0.2",
     title |-> <<"K", "r", "F">>, requirement_text |-> <<"ro", "ko">>],
    [id |-> 2, regime |-> "JP_FX", item_no |-> <<"f">>, version |-> "",
     title |-> <<>>, requirement_text |-> <<"bi", "sa", "ka", "ku">>],
    [id |-> 3, regime |-> "JP_FX", item_no |-> <<"r">>, version |-> "",
     title |-> <<>>, requirement_text |-> <<"ka", "ku">>],
    [id |-> 4, regime |-> "JP_FX", item_no |-> <<"f">>, version |-> "",
     title |-> <<" ">>, requirement_text |-> <<"ro", "ko", "bi">>],
    [id |-> 5, regime |-> "US_EAR", item_no |-> <<"k">>, version |-> "",
     title |-> <<>>, requirement_text |-> <<"ro", "ko">>],
    [id |-> 6, regime |-> "JP_FX", item_no |-> <<"k">>, version |-> "0.2",
     title |-> <<>>, requirement_text |-> <<"ka", "ku">>]>>

RuleIds == DOMAIN RuleRows

\* rows that data/matrix.json flattens to (they carry its schema_version)
JsonRuleIds == {r \in RuleIds : RuleRows[r].version # ""}

SeedRuleIds == RuleIds \ JsonRuleIds

PatentIds == {1, 2}

\* rows of data/patents.json, keyed by publication_number
JsonPatentIds == {1, 2}

\* inner product of the unit embeddings of a usage text and a patent text,
\* as a rank (higher is nearer)
Similarity(u, p) == IF (u + p) % 2 = 0 THEN 2 ELSE 1

(***************************************************************************)
(* step_matrix_match: rule text, rule_pack, scoring and row building       *)
(***************************************************************************)
RECURSIVE rstrip(_)
rstrip(s) ==
  IF s = <<>> THEN <<>>
  ELSE IF s[Len(s)] \in SpaceChars THEN rstrip(SubSeq(s, 1, Len(s) - 1)) ELSE s

strip(s) == rstrip(lstrip(s))

RECURSIVE JoinLines(_)
JoinLines(parts) ==
  IF parts = <<>> THEN <<>>
  ELSE IF Len(parts) = 1 THEN Head(parts)
  ELSE Head(parts) \o <<"nl">> \o JoinLines(Tail(parts))

rule_text(rule) ==
  LET parts == <<strip(rule.title), strip(rule.requirement_text),
                 strip(rule.item_no)>>
  IN JoinLines(SelectSeq(parts, LAMBDA p : p # <<>>))

RuleToks == [r \in RuleIds |-> _tokenize(rule_text(RuleRows[r]))]

UsageToks == [u \in UsageIds |-> _tokenize(strip(UsageRows[u].text))]

\* rules of the regime in catalog order with a non-empty tokenization
rule_pack(rules, regime) ==
  SelectSeq(SetToSeq({r \in rules : RuleRows[r].regime = regime}),
            LAMBDA r : RuleToks[r] # <<>>)

RECURSIVE InsertDescTiesFirst(_, _)
InsertDescTiesFirst(sorted, e) ==
  IF sorted = <<>> THEN <<e>>
  ELSE IF ~ScoreGreater(Head(sorted).score, e.score) THEN <<e>> \o sorted
  ELSE <<Head(sorted)>> \o InsertDescTiesFirst(Tail(sorted), e)

\* scored.sort(key=score, reverse=True): stable, descending
RECURSIVE InsertDesc(_, _)
InsertDesc(sorted, e) ==
  IF sorted = <<>> THEN <<e>>
  ELSE IF ScoreGreater(e.score, Head(sorted).score) THEN <<e>> \o sorted
  ELSE <<Head(sorted)>> \o InsertDesc(Tail(sorted), e)

RECURSIVE SortScored(_)
SortScored(s) ==
  IF s = <<>> THEN <<>>
  ELSE InsertDesc(SortScored(SubSeq(s, 1, Len(s) - 1)), s[Len(s)])

match_type_of(source) == IF source = "core" THEN "core_hit" ELSE "expanded_hit"

decision_of(score, threshold) ==
  IF ScoreAtLeast(score, threshold) THEN "hit" ELSE "maybe"

\* the rows one usage requirement contributes, in insertion order
usage_matches(u, pack, run_id, params) ==
  LET utoks == UsageToks[u]
      scored == [k \in DOMAIN pack |->
                   [score |-> _binary_cosine(utoks, RuleToks[pack[k]]).score,
                    rule |-> pack[k]]]
      keep == Take(SortScored(scored), params.top_k_per_usage)
      kept == SelectSeq(keep, LAMBDA c : ScorePositive(c.score))
  IN IF utoks = <<>> THEN <<>>
     ELSE [k \in DOMAIN kept |->
             [ai_run_id |-> run_id,
              matrix_rule_id |-> kept[k].rule,
              usage_requirement_id |-> u,
              match_type |-> match_type_of(UsageRows[u].source),
              match_score |-> kept[k].score,
              decision |-> decision_of(kept[k].score, params.threshold)]]

\* rows step_matrix_match adds for a run, in insertion order
match_rows(usages, rules, run_id, transaction_id, params) ==
  LET us == SetToSeq({u \in usages : UsageRows[u].transaction_id = transaction_id})
      pack == rule_pack(rules, params.regime)
  IN Flatten([k \in DOMAIN us |-> usage_matches(us[k], pack, run_id, params)])

(***************************************************************************)
(* step_patent_retrieve: index build, search, fallback and row building    *)
(***************************************************************************)
\* content of a file that does not exist
NoFile == <<-1>>

TopKPatents == 5

\* _build_faiss_from_db: one vector and one meta entry per patent, in id order
_build_faiss_from_db(pats) == [index |-> SetToSeq(pats), meta |-> SetToSeq(pats)]

\* _load_faiss_if_exists: both files must exist
_load_faiss_if_exists(files) ==
  IF files.index # NoFile /\ files.meta # NoFile THEN files
  ELSE [index |-> NoFile, meta |-> NoFile]

\* positions of the index by descending inner product with the query (stable)
RECURSIVE InsertBySim(_, _, _, _)
InsertBySim(sorted, e, u, index) ==
  IF sorted = <<>> THEN <<e>>
  ELSE IF Similarity(u, index[e]) > Similarity(u, index[Head(sorted)])
       THEN <<e>> \o sorted
       ELSE <<Head(sorted)>> \o InsertBySim(Tail(sorted), e, u, index)

RECURSIVE Nearest(_, _, _)
Nearest(n, u, index) ==
  IF n = 0 THEN <<>> ELSE InsertBySim(Nearest(n - 1, u, index), n, u, index)

_search_patents_faiss(pats, fa, u, top_k) ==
  LET q == strip(UsageRows[u].text)
      hits == Take(Nearest(Len(fa.index), u, fa.index), top_k)
      valid == SelectSeq(hits, LAMBDA idx : idx <= Len(fa.meta))
      found == SelectSeq(valid, LAMBDA idx : fa.meta[idx] \in pats)
  IN IF q = <<>> \/ Len(fa.index) = 0 THEN <<>>
     ELSE [k \in DOMAIN found |->
             [patent_id |-> fa.meta[found[k]],
              score |-> Similarity(u, fa.index[found[k]])]]

\* line 329: the why of a row, whether its results came from the search or
\* from the fallback of lines 319-321
why_tag(from_search) == "faiss_embedding_search"

usage_retrievals(u, pats, fa, run_id, top_k) ==
  LET results == _search_patents_faiss(pats, fa, u, top_k)
      candidates == Take(SetToSeq(pats), top_k)
      fallback == [k \in DOMAIN candidates |->
                     [patent_id |-> candidates[k], score |-> 0]]
      final == IF results = <<>> THEN fallback ELSE results
  IN IF strip(UsageRows[u].text) = <<>> THEN <<>>
     ELSE [k \in DOMAIN final |->
             [ai_run_id |-> run_id,
              usage_requirement_id |-> u,
              patent_id |-> final[k].patent_id,
              score |-> final[k].score,
              why |-> why_tag(results # <<>>)]]

\* the usage requirements whose rows come from the fallback (line 319)
fallback_usages(usages, pats, fa, transaction_id, top_k) ==
  {u \in usages : /\ UsageRows[u].transaction_id = transaction_id
                  /\ strip(UsageRows[u].text) # <<>>
                  /\ _search_patents_faiss(pats, fa, u, top_k) = <<>>}

retrieval_rows(usages, pats, fa, run_id, transaction_id, top_k) ==
  LET us == SetToSeq({u \in usages : UsageRows[u].transaction_id = transaction_id})
  IN Flatten([k \in DOMAIN us |-> usage_retrievals(us[k], pats, fa, run_id, top_k)])

ReplaceRowsKeeping(table, run_id, rows) ==
  LET base == Max({m.id : m \in table})
  IN table \cup {[id |-> base + k] @@ rows[k] : k \in DOMAIN rows}

\* rows of a table after the run's old rows are deleted and the new rows are
\* inserted with fresh primary keys
ReplaceRows(table, run_id, rows) ==
  LET kept == {m \in table : m.ai_run_id # run_id}
      base == Max({m.id : m \in kept})
  IN kept \cup {[id |-> base + k] @@ rows[k] : k \in DOMAIN rows}

(***************************************************************************)
(* The store, the data files and the pipeline invocations                  *)
(***************************************************************************)
VARIABLES
  ai_runs,             \* table ai_runs: sequence indexed by primary key
  matrix_matches,      \* table matrix_matches (committed rows)
  patent_retrievals,   \* table patent_retrievals (committed rows)
  matrix_rules,        \* table matrix_rules: ids of the committed rows
  patents,             \* table patents: ids of the committed rows
  usage_requirements,  \* table usage_requirements: ids of the committed rows
  data_files,          \* data/matrix.json, data/patents.json exist
  faiss,               \* data/faiss/patents.index and patents_meta.json
  inv,                 \* per invocation: position, session and locals
  two_list_call,       \* the last call of compute_two_lists: locals and result
  faiss_build,         \* which build wrote each of the two index files
  eval_requests,       \* table external_evaluation_requests
  faults,              \* failures of the environment so far
  text_call            \* the last call of a text function: arguments and result

vars == <<ai_runs, matrix_matches, patent_retrievals, matrix_rules, patents,
          usage_requirements, data_files, faiss, inv, two_list_call,
          faiss_build, eval_requests, faults, text_call>>

Invocations == {1, 2}

\* the invocations work on different transactions
TxOf(i) == i

MaxFaults == 1

ErrorLimit == 8000

\* len(repr(e)): the errors of the database driver quote the statement and
\* its parameters
repr_len(kind) ==
  IF kind \in {"IntegrityError", "PendingRollbackError"} THEN 9000 ELSE 40

NoExc == [kind |-> "none", origin |-> "none", len |-> 0]

StageOrderSwapped ==
  <<"usage_extract", "usage_expand", "patent_retrieve", "matrix_match">>

\* run_until_matrix_match: the stages in call order
StageOrder == <<"usage_extract", "patent_retrieve", "usage_expand", "matrix_match">>

\* run_until_matrix_match passes threshold only; regime and top_k default
DefaultThreshold == [num |-> 3, den |-> 4]

TopKPerUsage == 10

PipelineParams ==
  [threshold |-> DefaultThreshold, regime |-> "JP_FX",
   top_k_per_usage |-> TopKPerUsage]

(***************************************************************************)
(* runner.py                                                               *)
(***************************************************************************)
create_run_terminal(transaction_id, run_type) ==
  [transaction_id |-> transaction_id, run_type |-> run_type,
   status |-> "success", finished_at |-> FALSE, error |-> NoExc]

create_run(transaction_id, run_type) ==
  [transaction_id |-> transaction_id, run_type |-> run_type,
   status |-> "running", finished_at |-> FALSE, error |-> NoExc]

finalize_run_success(run) ==
  [run EXCEPT !.status = "success", !.finished_at = TRUE]

finalize_run_failed_unmarked(run, e) ==
  [run EXCEPT !.finished_at = TRUE, !.error = e]

finalize_run_failed(run, e) ==
  [run EXCEPT !.status = "failed", !.finished_at = TRUE,
              !.error = [e EXCEPT !.len = IF e.len > ErrorLimit
                                           THEN ErrorLimit ELSE e.len]]

CommitCreateLost(runs, row) == runs

\* the first db_transaction of execute_step commits the new row
CommitCreate(runs, row) == Append(runs, row)

Stage(i) == StageOrder[inv[i].k]

Fault == faults < MaxFaults

\* the build of the index an invocation makes in its current call of
\* step_patent_retrieve (_get_or_build_faiss, lines 215-216)
BuildId(i) == [by |-> i, call |-> inv[i].calls]

\* a build made before the invocations started
EarlierBuild == [by |-> 0, call |-> 0]

\* the build of a file that does not exist
NoBuild == [by |-> 0, call |-> -1]

\* the builds of index files that exist when the invocations start
BuildsOf(files) ==
  [index |-> IF files.index = NoFile THEN NoBuild ELSE EarlierBuild,
   meta |-> IF files.meta = NoFile THEN NoBuild ELSE EarlierBuild]

\* no index in memory
NoIndex ==
  [index |-> NoFile, meta |-> NoFile,
   builds |-> [index |-> NoBuild, meta |-> NoBuild]]

\* _post_webhook has not been called
NoWebhook == [log |-> <<>>, raised |-> FALSE]

\* no external evaluation request is being processed
NoRequests == <<>>

\* payload_out of a request that has not been completed
NoPayload ==
  [transaction_id |-> 0, latest_patent_ai_run_id |-> 0,
   latest_matrix_ai_run_id |-> 0, patent_retrievals_top |-> {},
   matrix_matches_top |-> {}]

\* the result webhook has not been built
NoWebhookBody == [status |-> "none", reason |-> "none", payload |-> NoPayload]

\* no text function has been called yet
NoTextCall == [fn |-> "none"]

Raise(i, pc, kind, origin) ==
  inv' = [inv EXCEPT ![i].pc = pc, ![i].pend = {},
                     ![i].exc = [kind |-> kind, origin |-> origin,
                                 len |-> repr_len(kind)]]

Goto(i, pc) == inv' = [inv EXCEPT ![i].pc = pc]

\* where a step function returns to: execute_step, or the caller of a direct
\* call of the step function
AfterStep(i) == IF inv[i].direct THEN "done" ELSE "finalize"

\* where an exception of a step function goes: the except clause of
\* execute_step, or the caller of a direct call
Handler(i) == IF inv[i].direct THEN "raised" ELSE "except"

\* execute_step, lines 69-78: create the Run and commit it
CreateRun(i) ==
  /\ inv[i].pc = "create"
  /\ \/ /\ ai_runs' = CommitCreate(ai_runs, create_run(TxOf(i), Stage(i)))
        /\ inv' = [inv EXCEPT ![i].pc = "step",
                              ![i].run = Len(ai_runs) + 1,
                              ![i].runs = Append(@, Len(ai_runs) + 1),
                              ![i].ingest_result = {}]
        /\ UNCHANGED faults
     \/ /\ Fault
        /\ faults' = faults + 1
        /\ Raise(i, "raised", "OperationalError", "create")
        /\ UNCHANGED ai_runs
  /\ UNCHANGED <<matrix_matches, patent_retrievals, matrix_rules, patents,
                 usage_requirements, two_list_call, data_files, text_call, faiss,
                 faiss_build, eval_requests>>

\* step_usage_extract, step_usage_expand: return a dict, write nothing
StepStub(i) ==
  /\ inv[i].pc = "step"
  /\ Stage(i) \in {"usage_extract", "usage_expand"}
  /\ Goto(i, "finalize")
  /\ UNCHANGED <<ai_runs, matrix_matches, patent_retrievals, matrix_rules,
                 patents, usage_requirements, two_list_call, data_files, text_call,
                 faiss, faiss_build, eval_requests, faults>>

UsagesOf(transaction_id) ==
  {u \in usage_requirements : UsageRows[u].transaction_id = transaction_id}

\* step_patent_retrieve, lines 279-287: count the patents and, when the table
\* is empty and data/patents.json exists, queue its rows for insertion
PRBegin(i) ==
  /\ inv[i].pc = "step"
  /\ Stage(i) = "patent_retrieve"
  /\ IF patents = {} /\ data_files.patents_json
     THEN inv' = [inv EXCEPT ![i].pc = "pr_ingest",
                             ![i].pend = JsonPatentIds \ patents]
     ELSE Goto(i, "pr_main")
  /\ UNCHANGED <<ai_runs, matrix_matches, patent_retrievals, matrix_rules,
                 patents, usage_requirements, two_list_call, data_files, text_call,
                 faiss, faiss_build, eval_requests, faults>>

\* step_patent_retrieve, line 288: db.commit() of the ingested patents;
\* publication_number is unique
PRIngestCommit(i) ==
  /\ inv[i].pc = "pr_ingest"
  /\ \/ /\ inv[i].pend \cap patents = {}
        /\ patents' = patents \cup inv[i].pend
        /\ inv' = [inv EXCEPT ![i].pc = "pr_main", ![i].pend = {},
                     ![i].ingest_result =
                        {<<"patents", "inserted", p>> : p \in inv[i].pend}]
        /\ UNCHANGED faults
     \/ /\ inv[i].pend \cap patents # {}
        /\ Raise(i, "except", "IntegrityError", "step_fn")
        /\ UNCHANGED <<patents, faults>>
     \/ /\ Fault
        /\ faults' = faults + 1
        /\ Raise(i, "except", "OperationalError", "step_fn")
        /\ UNCHANGED patents
  /\ UNCHANGED <<ai_runs, matrix_matches, patent_retrievals, matrix_rules,
                 usage_requirements, two_list_call, data_files, text_call, faiss,
                 faiss_build, eval_requests>>

\* step_patent_retrieve, lines 291-334: delete the run's rows, load or build
\* the index, search per usage requirement, insert, commit
PRMain(i) ==
  /\ inv[i].pc = "pr_main"
  /\ LET us == UsagesOf(TxOf(i))
         loaded == _load_faiss_if_exists(faiss)
         fa == IF loaded.index # NoFile THEN loaded
               ELSE _build_faiss_from_db(patents)
         saved == IF us = {} THEN faiss ELSE fa
         saved_build == IF us = {} \/ loaded.index # NoFile THEN faiss_build
                        ELSE [index |-> BuildId(i), meta |-> BuildId(i)]
         rows == retrieval_rows(usage_requirements, patents, fa, inv[i].run,
                                TxOf(i), TopKPatents)
     IN \/ /\ patent_retrievals' = ReplaceRows(patent_retrievals, inv[i].run, rows)
           /\ faiss' = saved
           /\ faiss_build' = saved_build
           /\ inv' = [inv EXCEPT
                        ![i].pc = "finalize",
                        ![i].fallback =
                           fallback_usages(usage_requirements, patents, fa,
                                           TxOf(i), TopKPatents)]
           /\ UNCHANGED faults
        \/ /\ Fault
           /\ faults' = faults + 1
           /\ \E early \in BOOLEAN :
                /\ faiss' = IF early THEN faiss ELSE saved
                /\ faiss_build' = IF early THEN faiss_build ELSE saved_build
           /\ Raise(i, "except", "RuntimeError", "step_fn")
           /\ UNCHANGED patent_retrievals
  /\ UNCHANGED <<ai_runs, matrix_matches, matrix_rules, patents,
                 usage_requirements, two_list_call, data_files, text_call,
                 eval_requests>>

\* step_matrix_match, lines 297-316 and _upsert_matrix_rules_from_json,
\* lines 159-209: when data/matrix.json exists, look its rows up and queue
\* the missing ones for insertion (the others are updated)
MMBegin(i) ==
  /\ inv[i].pc = "step"
  /\ Stage(i) = "matrix_match"
  /\ IF data_files.matrix_json
     THEN inv' = [inv EXCEPT ![i].pc = "mm_ingest",
                             ![i].pend = JsonRuleIds \ matrix_rules]
     ELSE Goto(i, "mm_main")
  /\ UNCHANGED <<ai_runs, matrix_matches, patent_retrievals, matrix_rules,
                 patents, usage_requirements, two_list_call, data_files, text_call,
                 faiss, faiss_build, eval_requests, faults>>

\* _upsert_matrix_rules_from_json, line 211: db.commit() of the upsert;
\* (regime, item_no, version) is unique.  A failure is swallowed at lines
\* 317-319 and the next statement of the session (line 322) raises
MMIngestCommit(i) ==
  /\ inv[i].pc = "mm_ingest"
  /\ \/ /\ inv[i].pend \cap matrix_rules = {}
        /\ matrix_rules' = matrix_rules \cup inv[i].pend
        /\ inv' = [inv EXCEPT ![i].pc = "mm_main", ![i].pend = {},
                     ![i].ingest_result =
                        {<<"matrix_rules", "inserted", r>> : r \in inv[i].pend}
                        \cup {<<"matrix_rules", "updated", r>> :
                                r \in JsonRuleIds \ inv[i].pend}]
        /\ UNCHANGED faults
     \/ /\ inv[i].pend \cap matrix_rules # {}
        /\ Raise(i, Handler(i), "PendingRollbackError", "step_fn")
        /\ UNCHANGED <<matrix_rules, faults>>
     \/ /\ Fault
        /\ faults' = faults + 1
        /\ Raise(i, Handler(i), "PendingRollbackError", "step_fn")
        /\ UNCHANGED matrix_rules
  /\ UNCHANGED <<ai_runs, matrix_matches, patent_retrievals, patents,
                 usage_requirements, two_list_call, data_files, text_call, faiss,
                 faiss_build, eval_requests>>

\* the rows step_matrix_match computes (none without usage requirements or
\* without rules of the regime)
step_matrix_match_rows(usages, rules, run_id, transaction_id, params) ==
  IF {u \in usages : UsageRows[u].transaction_id = transaction_id} = {}
       \/ {r \in rules : RuleRows[r].regime = params.regime} = {}
  THEN <<>>
  ELSE match_rows(usages, rules, run_id, transaction_id, params)

step_matrix_match_note_always_matched(usages, rules, transaction_id, params) ==
  "matched"

\* the note of the dict step_matrix_match returns (lines 330-358, 450-463)
step_matrix_match_note(usages, rules, transaction_id, params) ==
  IF {u \in usages : UsageRows[u].transaction_id = transaction_id} = {}
  THEN "no_usage_requirements"
  ELSE IF {r \in rules : RuleRows[r].regime = params.regime} = {}
       THEN "no_matrix_rules"
       ELSE "matched"

\* what a computation of step_matrix_match reads; has_decision is the answer
\* of _table_has_column(db, "matrix_matches", "decision") (line 303)
MatchInputs(transaction_id, params, has_decision) ==
  [usages |-> UsagesOf(transaction_id), rules |-> matrix_rules,
   params |-> params, has_decision |-> has_decision]

\* MatrixMatch.decision, default=MatchDecision.hit.value
DefaultDecision == "hit"

\* lines 418-419: decision is set only when the inspection of the table
\* found the column; a row added without it is inserted with the default
persisted_rows(rows, has_decision) ==
  IF has_decision THEN rows
  ELSE [k \in DOMAIN rows |-> [rows[k] EXCEPT !.decision = DefaultDecision]]

\* step_matrix_match, lines 321-448: delete the run's rows, score, insert,
\* commit
MMMain(i) ==
  /\ inv[i].pc = "mm_main"
  /\ \/ \E has_decision \in BOOLEAN :
          \* _table_has_column answers False when the inspection raises
          /\ has_decision \/ Fault
          /\ faults' = IF has_decision THEN faults ELSE faults + 1
          /\ matrix_matches' =
               ReplaceRows(matrix_matches, inv[i].run,
                           persisted_rows(
                             step_matrix_match_rows(usage_requirements,
                                                    matrix_rules, inv[i].run,
                                                    TxOf(i), inv[i].params),
                             has_decision))
          /\ inv' = [inv EXCEPT
                       ![i].pc = AfterStep(i),
                       ![i].inputs = MatchInputs(TxOf(i), inv[i].params,
                                                 has_decision),
                       ![i].result =
                          [inserted |-> Len(step_matrix_match_rows(
                                              usage_requirements, matrix_rules,
                                              inv[i].run, TxOf(i),
                                              inv[i].params)),
                           note |-> step_matrix_match_note(
                                      usage_requirements, matrix_rules,
                                      TxOf(i), inv[i].params)]]
     \/ /\ Fault
        /\ faults' = faults + 1
        /\ Raise(i, Handler(i), "OperationalError", "step_fn")
        /\ UNCHANGED matrix_matches
  /\ UNCHANGED <<ai_runs, patent_retrievals, matrix_rules, patents,
                 usage_requirements, two_list_call, data_files, text_call, faiss,
                 faiss_build, eval_requests>>

\* execute_step, lines 81-84: finalize_run_success and the commit of the
\* second db_transaction; run_until_matrix_match then calls the next stage
FinalizeSuccess(i) ==
  /\ inv[i].pc = "finalize"
  /\ \/ /\ ai_runs' = [ai_runs EXCEPT ![inv[i].run] = finalize_run_success(@)]
        /\ IF inv[i].k < Len(StageOrder)
           THEN inv' = [inv EXCEPT ![i].pc = "create", ![i].k = @ + 1]
           ELSE Goto(i, "done")
        /\ UNCHANGED faults
     \/ /\ Fault
        /\ faults' = faults + 1
        /\ Raise(i, "except", "OperationalError", "commit")
        /\ UNCHANGED ai_runs
  /\ UNCHANGED <<matrix_matches, patent_retrievals, matrix_rules, patents,
                 usage_requirements, two_list_call, data_files, text_call, faiss,
                 faiss_build, eval_requests>>

\* execute_step, lines 85-88: finalize_run_failed, commit, re-raise
FinalizeFailed(i) ==
  /\ inv[i].pc = "except"
  /\ \/ /\ ai_runs' = [ai_runs EXCEPT
                         ![inv[i].run] = finalize_run_failed(@, inv[i].exc)]
        /\ Goto(i, "raised")
        /\ UNCHANGED faults
     \/ /\ Fault
        /\ faults' = faults + 1
        /\ Raise(i, "raised", "OperationalError", "failed_commit")
        /\ UNCHANGED ai_runs
  /\ UNCHANGED <<matrix_matches, patent_retrievals, matrix_rules, patents,
                 usage_requirements, two_list_call, data_files, text_call, faiss,
                 faiss_build, eval_requests>>

(***************************************************************************)
(* The pipeline specification                                              *)
(***************************************************************************)
\* no call of compute_two_lists yet
NoCall ==
  [transaction_id |-> 0, run_id |-> 0, error |-> "none", grouped |-> <<>>,
   result |-> [run_id |-> 0,
               counts |-> [intersection |-> 0, expanded_only |-> 0,
                           total_unique_items |-> 0],
               intersection |-> <<>>, expanded_only |-> <<>>, note |-> FALSE]]

\* no step function has returned yet
NoResult == [inserted |-> 0, note |-> "none"]

NoInputs ==
  [usages |-> {}, rules |-> {}, params |-> PipelineParams,
   has_decision |-> TRUE]

InitInv ==
  [i \in Invocations |->
     [pc |-> "create", k |-> 1, run |-> 0, runs |-> <<>>, pend |-> {},
      ingest_result |-> {}, exc |-> NoExc, params |-> PipelineParams,
      direct |-> FALSE, calls |-> 0, inputs |-> NoInputs,
      result |-> NoResult, fallback |-> {}, fa |-> NoIndex,
      wh |-> NoWebhook, wh_err |-> NoWebhook,
      webhook_body |-> NoWebhookBody, db_closed |-> FALSE]]

InitStore ==
  /\ ai_runs = <<>>
  /\ matrix_matches = {}
  /\ patent_retrievals = {}
  /\ matrix_rules \in {{}, SeedRuleIds}
  /\ patents \in {{}, PatentIds}
  /\ usage_requirements \in {UsageIds, {1, 2}}
  /\ data_files \in {[matrix_json |-> b, patents_json |-> b] : b \in BOOLEAN}
  /\ faiss \in IF patents = {}
                THEN {[index |-> NoFile, meta |-> NoFile]}
                ELSE {[index |-> NoFile, meta |-> NoFile],
                      _build_faiss_from_db(patents)}

Init ==
  /\ InitStore
  /\ inv = InitInv
  /\ two_list_call = NoCall
  /\ faiss_build = BuildsOf(faiss)
  /\ eval_requests = NoRequests
  /\ faults = 0
  /\ text_call = NoTextCall

Next ==
  \E i \in Invocations :
    \/ CreateRun(i)
    \/ StepStub(i)
    \/ PRBegin(i)
    \/ PRIngestCommit(i)
    \/ PRMain(i)
    \/ MMBegin(i)
    \/ MMIngestCommit(i)
    \/ MMMain(i)
    \/ FinalizeSuccess(i)
    \/ FinalizeFailed(i)

Spec == Init /\ [][Next]_vars

(***************************************************************************)
(* two_list.py: the two-list aggregator                                    *)
(***************************************************************************)
Min(S) == IF S = {} THEN 0 ELSE CHOOSE m \in S : \A n \in S : m <= n

_pick_first_matrix_match_run_id(transaction_id) ==
  Min({r \in DOMAIN ai_runs :
         /\ ai_runs[r].transaction_id = transaction_id
         /\ ai_runs[r].run_type = "matrix_match"})

\* _pick_latest_matrix_match_run_id: 0 when the transaction has no such Run
_pick_latest_matrix_match_run_id(transaction_id) ==
  Max({r \in DOMAIN ai_runs :
         /\ ai_runs[r].transaction_id = transaction_id
         /\ ai_runs[r].run_type = "matrix_match"})

_get_item_key(rule) == <<rule.regime, rule.item_no, rule.version>>

\* _compact_item_label for an item_no without an 'id' entry
_compact_item_label(rule) == Take(strip(rule.item_no), 80)

\* the query leaves the row order to the planner: the rows come in the order
\* of matrix_matches.id, or grouped by the rule when matrix_rules is scanned
RowBefore(a, b, plan) ==
  IF plan = "by_rule" /\ a.matrix_rule_id # b.matrix_rule_id
  THEN a.matrix_rule_id < b.matrix_rule_id
  ELSE a.id < b.id

RECURSIVE OrderRows(_, _)
OrderRows(S, plan) ==
  IF S = {} THEN <<>>
  ELSE LET m == CHOOSE a \in S : \A b \in S \ {a} : RowBefore(a, b, plan)
       IN <<m>> \o OrderRows(S \ {m}, plan)

_load_matches_of_any_run(run_id, plan) ==
  OrderRows({m \in matrix_matches : m.matrix_rule_id \in matrix_rules}, plan)

\* _load_matches: the MatrixMatch rows of the run joined with their rule
_load_matches(run_id, plan) ==
  OrderRows({m \in matrix_matches :
               m.ai_run_id = run_id /\ m.matrix_rule_id \in matrix_rules}, plan)

\* _load_usage_map: the ids of the usage requirements of the transaction
_load_usage_map(transaction_id) == UsagesOf(transaction_id)

hit_bucket_analyst_as_core(mt, resolved, source) ==
  IF mt = "core_hit" \/ (resolved /\ source \in {"core", "analyst_added"})
  THEN "core"
  ELSE "expanded"

\* compute_two_lists, lines 236-243: the list of the group a hit is added to
hit_bucket(mt, resolved, source) ==
  IF mt = "core_hit" \/ (resolved /\ source = "core") THEN "core"
  ELSE IF mt = "expanded_hit"
            \/ (resolved /\ source \in {"expanded", "analyst_added"})
       THEN "expanded"
       ELSE "expanded"

decision_rank(d) == IF d = "hit" THEN 2 ELSE IF d = "maybe" THEN 1 ELSE 0

\* compute_two_lists, lines 176-193: the group a first row of a key creates
new_group(rule) ==
  [key |-> _get_item_key(rule), regime |-> rule.regime, rule_id |-> rule.id,
   version |-> rule.version, item_label |-> _compact_item_label(rule),
   rule_summary |-> Take(strip(rule.requirement_text), 160),
   title |-> rule.title, hits |-> [core |-> <<>>, expanded |-> <<>>],
   max_score |-> [n |-> 0, d |-> 0], best_decision |-> "None"]

\* compute_two_lists, lines 195-243: one row added to its group
add_hit(g, mm, usage_map) ==
  LET resolved == mm.usage_requirement_id \in usage_map
      ur_source == IF resolved THEN UsageRows[mm.usage_requirement_id].source
                   ELSE "None"
      hit_record == [matrix_match_id |-> mm.id,
                     usage_requirement_id |-> mm.usage_requirement_id,
                     usage_source |-> ur_source,
                     usage_text |-> IF resolved
                                    THEN strip(UsageRows[mm.usage_requirement_id].text)
                                    ELSE <<>>,
                     match_score |-> mm.match_score,
                     match_type |-> mm.match_type,
                     decision |-> mm.decision]
      bucket == hit_bucket(mm.match_type, resolved, ur_source)
  IN [g EXCEPT
        !.max_score = IF g.best_decision = "None"
                         \/ ScoreGreater(mm.match_score, @)
                      THEN mm.match_score ELSE @,
        !.best_decision = IF @ = "None" THEN mm.decision
                          ELSE IF decision_rank(mm.decision) > decision_rank(@)
                               THEN mm.decision ELSE @,
        !.hits[bucket] = Append(@, hit_record)]

\* compute_two_lists, lines 172-243: the groups in order of first appearance
RECURSIVE group_rows(_, _, _)
group_rows(rows, usage_map, grouped) ==
  IF rows = <<>> THEN grouped
  ELSE LET mm == Head(rows)
           rule == RuleRows[mm.matrix_rule_id]
           at == {k \in DOMAIN grouped : grouped[k].key = _get_item_key(rule)}
           next == IF at = {}
                   THEN Append(grouped, add_hit(new_group(rule), mm, usage_map))
                   ELSE [grouped EXCEPT
                           ![Max(at)] = add_hit(@, mm, usage_map)]
       IN group_rows(Tail(rows), usage_map, next)

in_intersection(item) ==
  item.hits.core # <<>> /\ item.hits.expanded # <<>>

in_expanded_only_any(item) == item.hits.expanded # <<>>

\* compute_two_lists, lines 251-252
in_expanded_only(item) ==
  item.hits.core = <<>> /\ item.hits.expanded # <<>>

\* sort_key: (-max_score, item_label)
ItemBeforeScoreOnly(a, b) ==
  ScoreGreater(a.max_score, b.max_score)

\* sort_key of compute_two_lists: (-max_score, item_label)
ItemBefore(a, b) ==
  \/ ScoreGreater(a.max_score, b.max_score)
  \/ /\ ~ScoreGreater(b.max_score, a.max_score)
     /\ LexLess(a.item_label, b.item_label)

\* list.sort(key=sort_key): stable
RECURSIVE InsertItem(_, _)
InsertItem(sorted, e) ==
  IF sorted = <<>> THEN <<e>>
  ELSE IF ItemBefore(e, Head(sorted)) THEN <<e>> \o sorted
  ELSE <<Head(sorted)>> \o InsertItem(Tail(sorted), e)

RECURSIVE SortItems(_)
SortItems(s) ==
  IF s = <<>> THEN <<>>
  ELSE InsertItem(SortItems(SubSeq(s, 1, Len(s) - 1)), s[Len(s)])

\* the locals and the result of a call of compute_two_lists
compute_two_lists(transaction_id, run_id, plan) ==
  LET rid == IF run_id # 0 THEN run_id
             ELSE _pick_latest_matrix_match_run_id(transaction_id)
      rows == _load_matches(rid, plan)
      grouped == group_rows(rows, _load_usage_map(transaction_id), <<>>)
      intersection == SortItems(SelectSeq(grouped, in_intersection))
      expanded_only == SortItems(SelectSeq(grouped, in_expanded_only))
  IN [transaction_id |-> transaction_id, run_id |-> run_id,
      error |-> IF rid = 0 THEN "ValueError" ELSE "none",
      grouped |-> IF rid = 0 THEN <<>> ELSE grouped,
      result |->
        IF rid = 0
        THEN [run_id |-> 0,
              counts |-> [intersection |-> 0, expanded_only |-> 0,
                          total_unique_items |-> 0],
              intersection |-> <<>>, expanded_only |-> <<>>, note |-> FALSE]
        ELSE [run_id |-> rid,
              counts |-> [intersection |-> Len(intersection),
                          expanded_only |-> Len(expanded_only),
                          total_unique_items |-> Len(grouped)],
              intersection |-> intersection,
              expanded_only |-> expanded_only,
              note |-> rows = <<>>]]

\* transactions 1 and 2 are screened by the invocations; transaction 3 has
\* no usage requirement and no Run
TransactionIds == {1, 2, 3}

\* the run_id of a request: absent (0), or the id of a Run of any transaction
\* that belongs to the matrix_match stage or to the patent_retrieve stage
RunIdChoices ==
  {0} \cup {r \in DOMAIN ai_runs :
              ai_runs[r].run_type \in {"matrix_match", "patent_retrieve"}}

\* GET /decision/{transaction_id}/two-lists: transaction_id and the optional
\* run_id (0: absent) come from the request; an unknown transaction gives the
\* ValueError of _pick_latest_matrix_match_run_id
ComputeTwoLists ==
  /\ \E transaction_id \in TransactionIds, run_id \in RunIdChoices,
        plan \in {"by_match", "by_rule"} :
       two_list_call' = compute_two_lists(transaction_id, run_id, plan)
  /\ UNCHANGED <<ai_runs, matrix_matches, patent_retrievals, matrix_rules,
                 patents, usage_requirements, data_files, text_call, faiss,
                 faiss_build, eval_requests, inv, faults>>

(***************************************************************************)
(* Direct calls of step_matrix_match for a run id that has been computed   *)
(***************************************************************************)
MaxCalls == 1

HalfThreshold == [num |-> 1, den |-> 2]

ParamChoices ==
  {PipelineParams,
   [PipelineParams EXCEPT !.threshold = HalfThreshold],
   [PipelineParams EXCEPT !.top_k_per_usage = 1],
   [PipelineParams EXCEPT !.regime = "US_EAR"]}

\* direct calls made so far, by either caller
CallsMade == inv[1].calls + inv[2].calls

\* step_matrix_match(db, run_id, transaction_id, params) called again for
\* the run id of the completed matrix_match stage
CallStepMatrixMatch(i) ==
  /\ inv[i].pc = "done"
  /\ CallsMade < MaxCalls
  /\ \E params \in ParamChoices :
       inv' = [inv EXCEPT ![i].pc = "step", ![i].direct = TRUE,
                          ![i].calls = @ + 1, ![i].params = params]
  /\ UNCHANGED <<ai_runs, matrix_matches, patent_retrievals, matrix_rules,
                 patents, usage_requirements, two_list_call, data_files, text_call,
                 faiss, faiss_build, eval_requests, faults>>

(***************************************************************************)
(* step_patent_retrieve statement by statement: the index is loaded or     *)
(* built, its two files are written one after the other, then the usage    *)
(* requirements are searched                                               *)
(***************************************************************************)
\* lines 291-308 and _get_or_build_faiss, lines 210-215: without usage
\* requirements commit and return; else load the index files, or build the
\* index from the patents table when a file is missing
PRLoad(i) ==
  /\ inv[i].pc = "pr_main"
  /\ LET loaded == _load_faiss_if_exists(faiss)
     IN \/ /\ UsagesOf(TxOf(i)) = {}
           /\ patent_retrievals' = ReplaceRows(patent_retrievals, inv[i].run, <<>>)
           /\ inv' = [inv EXCEPT ![i].pc = AfterStep(i), ![i].fallback = {}]
           /\ UNCHANGED faults
        \/ /\ UsagesOf(TxOf(i)) # {}
           /\ inv' = [inv EXCEPT
                        ![i].pc = IF loaded.index # NoFile THEN "pr_search"
                                  ELSE "pr_save_index",
                        ![i].fa =
                           IF loaded.index # NoFile
                           THEN [index |-> loaded.index, meta |-> loaded.meta,
                                 builds |-> faiss_build]
                           ELSE [index |-> _build_faiss_from_db(patents).index,
                                 meta |-> _build_faiss_from_db(patents).meta,
                                 builds |-> [index |-> BuildId(i),
                                             meta |-> BuildId(i)]]]
           /\ UNCHANGED <<patent_retrievals, faults>>
        \/ /\ Fault
           /\ faults' = faults + 1
           /\ Raise(i, Handler(i), "OperationalError", "step_fn")
           /\ UNCHANGED patent_retrievals
  /\ UNCHANGED <<ai_runs, matrix_matches, matrix_rules, patents,
                 usage_requirements, two_list_call, data_files, text_call, faiss,
                 faiss_build, eval_requests>>

\* _save_faiss, line 204: faiss.write_index
PRSaveIndex(i) ==
  /\ inv[i].pc = "pr_save_index"
  /\ \/ /\ faiss' = [faiss EXCEPT !.index = inv[i].fa.index]
        /\ faiss_build' = [faiss_build EXCEPT !.index = inv[i].fa.builds.index]
        /\ Goto(i, "pr_save_meta")
        /\ UNCHANGED faults
     \/ /\ Fault
        /\ faults' = faults + 1
        /\ Raise(i, Handler(i), "RuntimeError", "step_fn")
        /\ UNCHANGED <<faiss, faiss_build>>
  /\ UNCHANGED <<ai_runs, matrix_matches, patent_retrievals, matrix_rules,
                 patents, usage_requirements, two_list_call, data_files, text_call,
                 eval_requests>>

\* _save_faiss, lines 205-206: json.dump of the metadata
PRSaveMeta(i) ==
  /\ inv[i].pc = "pr_save_meta"
  /\ \/ /\ faiss' = [faiss EXCEPT !.meta = inv[i].fa.meta]
        /\ faiss_build' = [faiss_build EXCEPT !.meta = inv[i].fa.builds.meta]
        /\ Goto(i, "pr_search")
        /\ UNCHANGED faults
     \/ /\ Fault
        /\ faults' = faults + 1
        /\ Raise(i, Handler(i), "OSError", "step_fn")
        /\ UNCHANGED <<faiss, faiss_build>>
  /\ UNCHANGED <<ai_runs, matrix_matches, patent_retrievals, matrix_rules,
                 patents, usage_requirements, two_list_call, data_files, text_call,
                 eval_requests>>

\* lines 310-334: search per usage requirement with the index in memory,
\* fall back, insert, commit
PRSearch(i) ==
  /\ inv[i].pc = "pr_search"
  /\ LET fa == [index |-> inv[i].fa.index, meta |-> inv[i].fa.meta]
     IN \/ /\ patent_retrievals' =
                ReplaceRows(patent_retrievals, inv[i].run,
                            retrieval_rows(usage_requirements, patents, fa,
                                           inv[i].run, TxOf(i), TopKPatents))
           /\ inv' = [inv EXCEPT
                        ![i].pc = AfterStep(i),
                        ![i].fallback =
                           fallback_usages(usage_requirements, patents, fa,
                                           TxOf(i), TopKPatents)]
           /\ UNCHANGED faults
        \/ /\ Fault
           /\ faults' = faults + 1
           /\ Raise(i, Handler(i), "OperationalError", "step_fn")
           /\ UNCHANGED patent_retrievals
  /\ UNCHANGED <<ai_runs, matrix_matches, matrix_rules, patents,
                 usage_requirements, two_list_call, data_files, text_call, faiss,
                 faiss_build, eval_requests>>

\* step_patent_retrieve(db, transaction_id, run_id, params) called again for
\* the run id of the completed patent_retrieve stage
CallStepPatentRetrieve(i) ==
  /\ \/ inv[i].pc = "create" /\ inv[i].k = 3
     \/ inv[i].pc = "done"
  /\ CallsMade < MaxCalls
  /\ inv' = [inv EXCEPT ![i].pc = "step", ![i].k = 2, ![i].direct = TRUE,
                        ![i].calls = @ + 1]
  /\ UNCHANGED <<ai_runs, matrix_matches, patent_retrievals, matrix_rules,
                 patents, usage_requirements, two_list_call, data_files, text_call,
                 faiss, faiss_build, eval_requests, faults>>

\* The retrieval stage of a second round: transaction 1 was screened once
\* (Runs 1-4) while the patents table was empty, which saved an empty index;
\* since then patents were loaded or data/patents.json was deployed, and the
\* index files were kept or removed.  Both invocations have completed
\* usage_expand and created the Run of patent_retrieve (Runs 5-8)
RetrieveLedger ==
  [r \in 1..8 |->
     IF r <= 4 THEN finalize_run_success(create_run(1, StageOrder[r]))
     ELSE LET run == create_run(TxOf(((r - 5) % 2) + 1),
                                StageOrder[(r - 3) \div 2])
          IN IF r <= 6 THEN finalize_run_success(run) ELSE run]

InitRetrieveStage ==
  /\ ai_runs = RetrieveLedger
  /\ usage_requirements \in {UsageIds, {1, 2}}
  /\ data_files \in {[matrix_json |-> FALSE, patents_json |-> b] : b \in BOOLEAN}
  /\ matrix_rules = SeedRuleIds
  /\ patents \in {{}, PatentIds}
  /\ faiss \in {_build_faiss_from_db({}), [index |-> NoFile, meta |-> NoFile]}
  /\ patent_retrievals = {}
  /\ matrix_matches =
       ReplaceRows({}, 4, step_matrix_match_rows(usage_requirements,
                                                 matrix_rules, 4, 1,
                                                 PipelineParams))
  /\ inv = [i \in Invocations |->
              [InitInv[i] EXCEPT !.pc = "step", !.k = 2, !.run = 6 + i,
                                 !.runs = <<4 + i, 6 + i>>]]
  /\ two_list_call = NoCall
  /\ faiss_build = BuildsOf(faiss)
  /\ eval_requests = NoRequests
  /\ faults = 0
  /\ text_call = NoTextCall

NextRetrieve ==
  \E i \in Invocations :
    \/ PRBegin(i)
    \/ PRIngestCommit(i)
    \/ PRLoad(i)
    \/ PRSaveIndex(i)
    \/ PRSaveMeta(i)
    \/ PRSearch(i)
    \/ FinalizeSuccess(i)
    \/ FinalizeFailed(i)
    \/ CallStepPatentRetrieve(i)

SpecRetrieve == InitRetrieveStage /\ [][NextRetrieve]_vars

(***************************************************************************)
(* integrations/export_control.py: the background task of an external      *)
(* evaluation request.  Invocation i processes request i, whose transaction *)
(* is TxOf(i).  The commits of the task itself succeed; what fails is the  *)
(* payload check, the flush of the new transaction, a pipeline stage, the  *)
(* lookup of the matrix_match Run or the receiver of the webhook           *)
(***************************************************************************)
RECURSIVE Pow2(_)
Pow2(n) == IF n = 0 THEN 1 ELSE 2 * Pow2(n - 1)

backoff_delay_constant(i) == 1

\* time.sleep(0.5 * (2**i)), in half seconds
backoff_delay(i) == Pow2(i)

\* the for loop of _post_webhook from attempt i on; answers[k] tells whether
\* the receiver accepts the k-th post
RECURSIVE post_loop(_, _, _, _)
post_loop(i, retries, answers, log) ==
  IF i >= retries THEN [log |-> log, raised |-> TRUE]
  ELSE IF answers[i + 1]
       THEN [log |-> Append(log, [kind |-> "post", ok |-> TRUE, delay |-> 0]),
             raised |-> FALSE]
       ELSE post_loop(i + 1, retries, answers,
                      log \o <<[kind |-> "post", ok |-> FALSE, delay |-> 0],
                               [kind |-> "sleep", ok |-> FALSE,
                                delay |-> backoff_delay(i)]>>)

\* _post_webhook(callback_url, body, retries=retries): the posts and sleeps it
\* makes, and whether it ends with RuntimeError
_post_webhook(retries, answers) == post_loop(0, retries, answers, <<>>)

\* retries of the result webhook and of the error webhook
ResultRetries == 3

ErrorRetries == 2

\* payload_in of a request without the key product_id
NoProduct == 0

\* create_export_control_request: the row the router commits, with the
\* product_id of payload_in
QueuedRequest(product_id) ==
  [status |-> "queued", reason |-> "none", payload_out |-> NoPayload,
   transaction_id |-> 0, product_id |-> product_id]

\* create_transaction_from_payload: the usage requirement of the new
\* transaction, source "core"
RequestUsage(i) ==
  CHOOSE u \in UsageIds : /\ UsageRows[u].transaction_id = TxOf(i)
                          /\ UsageRows[u].source = "core"

\* _latest_ai_run_id: the greatest id of a success Run of the type (0: none);
\* an exception of the statement is swallowed and answered by None
_latest_ai_run_id(transaction_id, run_type, raised) ==
  IF raised THEN 0
  ELSE Max({r \in DOMAIN ai_runs :
              /\ ai_runs[r].transaction_id = transaction_id
              /\ ai_runs[r].run_type = run_type
              /\ ai_runs[r].status = "success"})

\* _summarize_result_payload: the rows of the latest successful Runs; lost
\* holds the run types whose lookup raised
_summarize_result_payload(transaction_id, lost) ==
  LET rid_pat == _latest_ai_run_id(transaction_id, "patent_retrieve",
                                   "patent_retrieve" \in lost)
      rid_mat == _latest_ai_run_id(transaction_id, "matrix_match",
                                   "matrix_match" \in lost)
  IN [transaction_id |-> transaction_id,
      latest_patent_ai_run_id |-> rid_pat,
      latest_matrix_ai_run_id |-> rid_mat,
      patent_retrievals_top |->
        {m \in patent_retrievals : m.ai_run_id = rid_pat},
      matrix_matches_top |-> {m \in matrix_matches : m.ai_run_id = rid_mat}]

\* _fetch_matrix_matches orders by match_score desc: the rows that can come
\* first
TopRows(rows) ==
  {m \in rows : \A o \in rows : ~ScoreGreater(o.match_score, m.match_score)}

\* threshold * 0.6
ReviewLevel(th) == [num |-> th.num * 3, den |-> th.den * 5]

\* _decide_status_reason, with top the first row of matrix_matches_top
_decide_status_reason(payload_out, threshold, top) ==
  IF payload_out.matrix_matches_top = {}
  THEN [status |-> "needs_more_info", reason |-> "matrix_result_empty"]
  ELSE IF /\ top.decision \in {"controlled", "non_controlled"}
          /\ ScoreAtLeast(top.match_score, threshold)
       THEN [status |-> top.decision, reason |-> "decided"]
       ELSE IF top.decision = "maybe"
            THEN [status |-> "needs_review",
                  reason |-> IF ScoreAtLeast(top.match_score,
                                             ReviewLevel(threshold))
                             THEN "review_high_maybe"
                             ELSE "review_low_maybe"]
            ELSE [status |-> "needs_review", reason |-> "review_decision"]

record_error_without_payload(req, e) ==
  [req EXCEPT !.status = "error", !.reason = e, !.payload_out = NoPayload]

\* lines 446-448: req2.status = "error", req2.reason = str(e)
record_error(req, e) == [req EXCEPT !.status = "error", !.reason = e]

\* process_external_request, lines 385-408: load the request; ValueError when
\* payload_in has no product_id; else set status running, commit
ReqStart(i) ==
  /\ inv[i].pc = "rq_start"
  /\ IF eval_requests[i].product_id = NoProduct
     THEN /\ Raise(i, "rq_except", "ValueError", "payload")
          /\ UNCHANGED eval_requests
     ELSE /\ eval_requests' = [eval_requests EXCEPT ![i].status = "running"]
          /\ Goto(i, "rq_tx")
  /\ UNCHANGED <<ai_runs, matrix_matches, patent_retrievals, matrix_rules,
                 patents, usage_requirements, two_list_call, data_files, text_call,
                 faiss, faiss_build, faults>>

\* _make_case_no: "UI-{product_id}-{%Y%m%d%H%M%S}"; the requests whose
\* transaction would get the case_no of request i when both are created
\* within the same second
SameCaseNo(i) ==
  {j \in DOMAIN eval_requests \ {i} :
     /\ eval_requests[j].transaction_id # 0
     /\ eval_requests[j].product_id = eval_requests[i].product_id}

\* lines 410-414: create_transaction_from_payload, commit; then
\* run_until_matrix_match starts.  Transaction.case_no is unique: the flush
\* of line 98 raises IntegrityError for a case_no that exists, and leaves the
\* Session waiting for a rollback
ReqCreateTransaction(i) ==
  /\ inv[i].pc = "rq_tx"
  /\ \/ /\ usage_requirements' = usage_requirements \cup {RequestUsage(i)}
        /\ eval_requests' =
             [eval_requests EXCEPT ![i].transaction_id = TxOf(i)]
        /\ Goto(i, "create")
     \/ /\ SameCaseNo(i) # {}
        /\ Raise(i, "rq_except", "IntegrityError", "flush")
        /\ UNCHANGED <<usage_requirements, eval_requests>>
  /\ UNCHANGED <<ai_runs, matrix_matches, patent_retrievals, matrix_rules,
                 patents, two_list_call, data_files, text_call, faiss, faiss_build,
                 faults>>

\* the lookup of _summarize_result_payload that decides the status; the
\* lookup of the patent_retrieve Run is taken to succeed
LookupTypes == {"matrix_match"}

\* lines 419-438: the pipeline returned; summarize, decide, store status
\* completed with the reason and payload_out, commit, build webhook_body
ReqComplete(i) ==
  /\ inv[i].pc = "done"
  /\ \E lost \in SUBSET LookupTypes :
       LET payload_out == _summarize_result_payload(TxOf(i), lost)
           mm == payload_out.matrix_matches_top
       IN /\ faults + Cardinality(lost) <= MaxFaults
          /\ faults' = faults + Cardinality(lost)
          /\ \E top \in IF mm = {} THEN {NoPayload} ELSE TopRows(mm) :
               LET d == _decide_status_reason(payload_out,
                                              DefaultThreshold, top)
               IN /\ eval_requests' =
                       [eval_requests EXCEPT
                          ![i].status = "completed",
                          ![i].reason = d.reason,
                          ![i].payload_out = payload_out]
                  /\ inv' = [inv EXCEPT
                               ![i].pc = "rq_webhook",
                               ![i].webhook_body =
                                 [status |-> d.status, reason |-> d.reason,
                                  payload |-> payload_out]]
  /\ UNCHANGED <<ai_runs, matrix_matches, patent_retrievals, matrix_rules,
                 patents, usage_requirements, two_list_call, data_files, text_call,
                 faiss, faiss_build>>

\* lines 440 and 476-477: _post_webhook(callback, webhook_body, retries=3);
\* when it returns the task ends and the session is closed
ReqWebhook(i) ==
  /\ inv[i].pc = "rq_webhook"
  /\ \E answers \in [1..ResultRetries -> BOOLEAN] :
       LET r == _post_webhook(ResultRetries, answers)
       IN inv' = [inv EXCEPT
                    ![i].wh = r,
                    ![i].pc = IF r.raised THEN "rq_except" ELSE "rq_returned",
                    ![i].exc = IF r.raised
                               THEN [kind |-> "RuntimeError",
                                     origin |-> "webhook",
                                     len |-> repr_len("RuntimeError")]
                               ELSE @,
                    ![i].db_closed = ~r.raised]
  /\ UNCHANGED <<ai_runs, matrix_matches, patent_retrievals, matrix_rules,
                 patents, usage_requirements, two_list_call, data_files, text_call,
                 faiss, faiss_build, eval_requests, faults>>

\* the Session after the exception e: a flush that failed leaves it waiting
\* for a rollback, which the task never issues; execute_step has rolled
\* back the failure of a stage
SessionUsable(e) == e.origin # "flush"

\* lines 442-477: the except clause: load the request again (the query
\* raises PendingRollbackError on a Session that waits for a rollback, and
\* that exception leaves the clause); status error and reason str(e),
\* commit; the error webhook with retries=2 when payload_in has product_id,
\* its failure swallowed; raise; close the session
ReqExcept(i) ==
  /\ inv[i].pc \in {"raised", "rq_except"}
  /\ IF SessionUsable(inv[i].exc)
     THEN /\ eval_requests' =
               [eval_requests EXCEPT ![i] = record_error(@, inv[i].exc.kind)]
          /\ \E answers \in [1..ErrorRetries -> BOOLEAN] :
               inv' = [inv EXCEPT
                         ![i].wh_err =
                           IF eval_requests[i].product_id = NoProduct
                           THEN @
                           ELSE _post_webhook(ErrorRetries, answers),
                         ![i].pc = "rq_raised",
                         ![i].db_closed = TRUE]
     ELSE /\ UNCHANGED eval_requests
          /\ inv' = [inv EXCEPT
                       ![i].exc = [kind |-> "PendingRollbackError",
                                   origin |-> "except",
                                   len |-> repr_len("PendingRollbackError")],
                       ![i].pc = "rq_raised",
                       ![i].db_closed = TRUE]
  /\ UNCHANGED <<ai_runs, matrix_matches, patent_retrievals, matrix_rules,
                 patents, usage_requirements, two_list_call, data_files, text_call,
                 faiss, faiss_build, faults>>

\* two requests have been queued by POST /requests, the second for the
\* product of the first or without product_id; the catalog and the patents
\* are loaded and the index is built
InitRequests ==
  /\ ai_runs = <<>>
  /\ matrix_matches = {}
  /\ patent_retrievals = {}
  /\ matrix_rules \in {{}, SeedRuleIds}
  /\ patents = PatentIds
  /\ usage_requirements = {}
  /\ data_files = [matrix_json |-> FALSE, patents_json |-> FALSE]
  /\ faiss = _build_faiss_from_db(patents)
  /\ faiss_build = BuildsOf(faiss)
  /\ inv = [i \in Invocations |-> [InitInv[i] EXCEPT !.pc = "rq_start"]]
  /\ two_list_call = NoCall
  /\ \E product_id \in {NoProduct, 1} :
       eval_requests = [i \in Invocations |->
                          QueuedRequest(IF i = 1 THEN 1 ELSE product_id)]
  /\ faults = 0
  /\ text_call = NoTextCall

NextRequests ==
  \E i \in Invocations :
    \/ ReqStart(i)
    \/ ReqCreateTransaction(i)
    \/ CreateRun(i)
    \/ StepStub(i)
    \/ PRBegin(i)
    \/ PRMain(i)
    \/ MMBegin(i)
    \/ MMMain(i)
    \/ FinalizeSuccess(i)
    \/ FinalizeFailed(i)
    \/ ReqComplete(i)
    \/ ReqWebhook(i)
    \/ ReqExcept(i)

SpecRequests == InitRequests /\ [][NextRequests]_vars

(***************************************************************************)
(* The matching stage on its own: both invocations have completed the      *)
(* stages before matrix_match and have created its Run                     *)
(***************************************************************************)
MatchStageLedger ==
  [r \in 1..8 |->
     LET run == create_run(TxOf(((r - 1) % 2) + 1), StageOrder[(r + 1) \div 2])
     IN IF r <= 6 THEN finalize_run_success(run) ELSE run]

InitMatchStage ==
  /\ ai_runs = MatchStageLedger
  /\ matrix_matches = {}
  /\ matrix_rules \in {{}, SeedRuleIds}
  /\ usage_requirements \in {UsageIds, {1, 2}}
  /\ data_files \in {[matrix_json |-> b, patents_json |-> b] : b \in BOOLEAN}
  /\ patents = IF data_files.patents_json THEN JsonPatentIds ELSE {}
  /\ faiss = _build_faiss_from_db(patents)
  /\ patent_retrievals =
       ReplaceRows(
         ReplaceRows({}, 3, retrieval_rows(usage_requirements, patents, faiss,
                                           3, TxOf(1), TopKPatents)),
         4, retrieval_rows(usage_requirements, patents, faiss, 4, TxOf(2),
                           TopKPatents))
  /\ inv = [i \in Invocations |->
              [InitInv[i] EXCEPT !.pc = "step", !.k = 4, !.run = 6 + i,
                                 !.runs = <<i, 2 + i, 4 + i, 6 + i>>]]
  /\ two_list_call = NoCall
  /\ faiss_build = BuildsOf(faiss)
  /\ eval_requests = NoRequests
  /\ faults = 0
  /\ text_call = NoTextCall

NextRecompute ==
  \E i \in Invocations :
    \/ MMBegin(i)
    \/ MMIngestCommit(i)
    \/ MMMain(i)
    \/ FinalizeSuccess(i)
    \/ FinalizeFailed(i)
    \/ CallStepMatrixMatch(i)

SpecRecompute == InitMatchStage /\ [][NextRecompute]_vars

\* The matching stage of a second round: transaction 1 has been screened
\* once before (Runs 1-4), then both invocations were started, completed the
\* stages before matrix_match and created its Run (Runs 5-12)
LaterRunLedger ==
  [r \in 1..12 |->
     IF r <= 4 THEN finalize_run_success(create_run(1, StageOrder[r]))
     ELSE LET run == create_run(TxOf(((r - 5) % 2) + 1),
                                StageOrder[(r - 3) \div 2])
          IN IF r <= 10 THEN finalize_run_success(run) ELSE run]

InitLaterRun ==
  /\ ai_runs = LaterRunLedger
  /\ usage_requirements \in {UsageIds, {1, 2}}
  /\ data_files \in {[matrix_json |-> b, patents_json |-> b] : b \in BOOLEAN}
  /\ matrix_rules \in {r \cup (IF data_files.matrix_json THEN JsonRuleIds
                                 ELSE {}) : r \in {{}, SeedRuleIds}}
  /\ patents = IF data_files.patents_json THEN JsonPatentIds ELSE {}
  /\ faiss = _build_faiss_from_db(patents)
  /\ patent_retrievals =
       LET rows(r, i) == retrieval_rows(usage_requirements, patents, faiss,
                                        r, TxOf(i), TopKPatents)
       IN ReplaceRows(ReplaceRows(ReplaceRows({}, 2, rows(2, 1)),
                                  7, rows(7, 1)),
                      8, rows(8, 2))
  /\ matrix_matches =
       ReplaceRows({}, 4, step_matrix_match_rows(usage_requirements,
                                                 matrix_rules, 4, 1,
                                                 PipelineParams))
  /\ inv = [i \in Invocations |->
              [InitInv[i] EXCEPT !.pc = "step", !.k = 4, !.run = 10 + i,
                                 !.runs = <<4 + i, 6 + i, 8 + i, 10 + i>>]]
  /\ two_list_call = NoCall
  /\ faiss_build = BuildsOf(faiss)
  /\ eval_requests = NoRequests
  /\ faults = 0
  /\ text_call = NoTextCall

NextTwoList ==
  \/ \E i \in Invocations :
       \/ MMBegin(i)
       \/ MMIngestCommit(i)
       \/ MMMain(i)
       \/ FinalizeSuccess(i)
       \/ FinalizeFailed(i)
  \/ ComputeTwoLists

SpecTwoList == InitMatchStage /\ [][NextTwoList]_vars

SpecLaterRun == InitLaterRun /\ [][NextTwoList]_vars

(***************************************************************************)
(* The text functions of matrix_match.py on their own: _normalize_text,    *)
(* _tokenize and _binary_cosine applied to every text and token list of a  *)
(* bounded length, and the scoring of one usage text against one rule text. *)
(* Each behaviour is one call.                                             *)
(***************************************************************************)
MaxTextLen == 3

MaxTokens == 3

SeqsUpTo(S, n) == UNION {[1..k -> S] : k \in 0..n}

\* every text over the characters of the model
Texts == SeqsUpTo(Range(Alphabet), MaxTextLen)

\* characters of the texts that are tokenized: white space, a letter in
\* both cases, characters that are replaced, CJK characters
TokenizeChars == {" ", "nl", "K", "k", "FW(", "nakaguro", "ro", "ko"}

TokenizeTexts == SeqsUpTo(TokenizeChars, MaxTextLen)

\* tokens as _tokenize produces them: a Latin word, two 2-grams
TokenChoices == {<<"k">>, <<"ro", "ko">>, <<"ko", "bi">>}

\* token lists, with repeated tokens and in every order
TokenLists == SeqsUpTo(TokenChoices, MaxTokens)

\* characters of the texts that are scored against each other: CJK-range
\* characters (the middle dot U+30FB is one of them) and a Latin letter
ScoreChars == {"ro", "ko", "nakaguro", "k"}

ScoreTexts == SeqsUpTo(ScoreChars, MaxTextLen)

FullThreshold == [num |-> 1, den |-> 1]

ThresholdChoices == {HalfThreshold, DefaultThreshold, FullThreshold}

TextFrame ==
  UNCHANGED <<ai_runs, matrix_matches, patent_retrievals, matrix_rules,
              patents, usage_requirements, data_files, faiss, inv,
              two_list_call, faiss_build, eval_requests, faults>>

CallNormalizeText ==
  /\ text_call = NoTextCall
  /\ \E t \in Texts :
       text_call' = [fn |-> "_normalize_text", text |-> t,
                     out |-> _normalize_text(t)]
  /\ TextFrame

CallTokenize ==
  /\ text_call = NoTextCall
  /\ \E t \in TokenizeTexts :
       text_call' = [fn |-> "_tokenize", text |-> t, out |-> _tokenize(t)]
  /\ TextFrame

CallBinaryCosine ==
  /\ text_call = NoTextCall
  /\ \E a_tokens \in TokenLists, b_tokens \in TokenLists :
       text_call' = [fn |-> "_binary_cosine", a_tokens |-> a_tokens,
                     b_tokens |-> b_tokens,
                     out |-> _binary_cosine(a_tokens, b_tokens)]
  /\ TextFrame

\* step_matrix_match, lines 368-419, for one rule and one usage requirement:
\* the rule enters rule_pack when its text has tokens, the usage requirement
\* is scored when its text has tokens, and the row gets decision_val when
\* the decision column was found and the column default otherwise
score_pair(u_text, r_text) ==
  LET utoks == _tokenize(strip(u_text))
      rtoks == _tokenize(r_text)
      out == _binary_cosine(utoks, rtoks)
      decision_val == [th \in ThresholdChoices |-> decision_of(out.score, th)]
  IN IF rtoks = <<>> \/ utoks = <<>>
     THEN [fn |-> "score_pair", u_text |-> u_text,
           r_text |-> r_text, utoks |-> utoks, rtoks |-> rtoks,
           scored |-> FALSE]
     ELSE [fn |-> "score_pair", u_text |-> u_text,
           r_text |-> r_text, utoks |-> utoks, rtoks |-> rtoks,
           scored |-> TRUE, out |-> out,
           decision |->
             [has_decision \in BOOLEAN |->
                [th \in ThresholdChoices |->
                   persisted_rows(<<[decision |-> decision_val[th]]>>,
                                  has_decision)[1].decision]]]

ScorePair ==
  /\ text_call = NoTextCall
  /\ \E u_text \in ScoreTexts, r_text \in ScoreTexts :
       text_call' = score_pair(u_text, r_text)
  /\ TextFrame

\* the store does not matter to the text functions: the seed catalog, no
\* data files, no pipeline invocation started
InitText ==
  /\ ai_runs = <<>>
  /\ matrix_matches = {}
  /\ patent_retrievals = {}
  /\ matrix_rules = SeedRuleIds
  /\ patents = PatentIds
  /\ usage_requirements = UsageIds
  /\ data_files = [matrix_json |-> FALSE, patents_json |-> FALSE]
  /\ faiss = [index |-> NoFile, meta |-> NoFile]
  /\ inv = InitInv
  /\ two_list_call = NoCall
  /\ faiss_build = BuildsOf(faiss)
  /\ eval_requests = NoRequests
  /\ faults = 0
  /\ text_call = NoTextCall

NextText ==
  \/ CallNormalizeText
  \/ CallTokenize
  \/ CallBinaryCosine
  \/ ScorePair

SpecText == InitText /\ [][NextText]_vars

(***************************************************************************)
(* Properties of the run ledger and the orchestrator                       *)
(***************************************************************************)
StepPcs == {"step", "pr_ingest", "pr_main", "mm_ingest", "mm_main"}

RunRows(r) ==
  {m \in matrix_matches : m.ai_run_id = r}
    \cup {m \in patent_retrievals : m.ai_run_id = r}

\* C1: the persisted status of a Run changes only from running to success or
\* from running to failed, so at most once; a Run row, once committed, stays
C1_StatusOnlyLeavesRunning ==
  [][/\ Len(ai_runs') >= Len(ai_runs)
     /\ \A r \in DOMAIN ai_runs :
          ai_runs'[r].status # ai_runs[r].status
            => /\ ai_runs[r].status = "running"
               /\ ai_runs'[r].status \in {"success", "failed"}]_vars

C1_Witness ==
  \E r1, r2 \in DOMAIN ai_runs :
    ai_runs[r1].status = "success" /\ ai_runs[r2].status = "failed"

\* the rows the step_fn of the current stage of invocation i has made durable
DurableStageWrites(i) ==
  {w \in inv[i].ingest_result :
     \/ w[1] = "patents" /\ w[3] \in patents
     \/ w[1] = "matrix_rules" /\ w[3] \in matrix_rules}
    \cup {<<"row", m.id>> : m \in RunRows(inv[i].run)}

\* C2: when step_fn raises, no write of the stage is durable, the Run is
\* persisted as failed with a finish time and an error of at most 8000
\* characters, and the exception of step_fn reaches the caller
C2_StageWritesRolledBack ==
  \A i \in Invocations :
    inv[i].pc = "raised" /\ inv[i].exc.origin = "step_fn"
      => /\ DurableStageWrites(i) = {}
         /\ ai_runs[inv[i].run].status = "failed"
         /\ ai_runs[inv[i].run].finished_at
         /\ ai_runs[inv[i].run].error.len <= 8000
         /\ ai_runs[inv[i].run].error.kind = inv[i].exc.kind

\* C3: rows a stage wrote for its run id are durable only together with the
\* success status of that Run
C3_RowsOnlyOfSuccessfulRuns ==
  \A m \in matrix_matches \cup patent_retrievals :
    ai_runs[m.ai_run_id].status = "success"

\* C4: whenever step_fn has been invoked the Run row of the stage is durable
\* (in state running while step_fn runs), also after step_fn failed and the
\* stage's transaction was rolled back
C4_RunRowBeforeStep ==
  \A i \in Invocations :
    LET present == /\ inv[i].run \in DOMAIN ai_runs
                   /\ ai_runs[inv[i].run].transaction_id = TxOf(i)
                   /\ ai_runs[inv[i].run].run_type
                        = <<"usage_extract", "patent_retrieve",
                            "usage_expand", "matrix_match">>[inv[i].k]
    IN /\ inv[i].pc \in StepPcs
          => present /\ ai_runs[inv[i].run].status = "running"
       /\ inv[i].pc \in {"finalize", "except"} => present
       /\ inv[i].pc = "raised" /\ inv[i].exc.origin # "create" => present

C4_Witness ==
  \E i \in Invocations :
    /\ inv[i].pc = "raised"
    /\ inv[i].exc.origin = "step_fn"
    /\ inv[i].run \in DOMAIN ai_runs
    /\ ai_runs[inv[i].run].status = "failed"

\* C5: the Runs of one invocation are created in the order usage_extract,
\* patent_retrieve, usage_expand, matrix_match with increasing ids, and a
\* stage has a Run only when the Run of the stage before it is success
C5_StagesInOrder ==
  \A i \in Invocations :
    LET rs == inv[i].runs
    IN /\ Len(rs) <= 4
       /\ \A j \in DOMAIN rs :
            /\ rs[j] \in DOMAIN ai_runs
            /\ ai_runs[rs[j]].transaction_id = TxOf(i)
            /\ ai_runs[rs[j]].run_type
                 = <<"usage_extract", "patent_retrieve",
                     "usage_expand", "matrix_match">>[j]
            /\ j < Len(rs) => /\ ai_runs[rs[j]].status = "success"
                              /\ rs[j] < rs[j + 1]

C5_Witness ==
  \E i \in Invocations :
    /\ inv[i].pc = "done"
    /\ Len(inv[i].runs) = 4
    /\ inv[i].runs[1] + 1 < inv[i].runs[2]

\* C6 as stated: after stage k failed the ledger holds exactly k Runs of the
\* invocation, the first k-1 success and the last one failed
C6_ExactlyKRunsLastFailed ==
  \A i \in Invocations :
    inv[i].pc = "raised"
      => /\ Len(inv[i].runs) = inv[i].k
         /\ \A j \in DOMAIN inv[i].runs :
              ai_runs[inv[i].runs[j]].status
                = IF j < inv[i].k THEN "success" ELSE "failed"

\* C6 amended: after stage k failed an exception has reached the caller, no
\* Run of a later stage exists, the Runs of the stages before k are success
\* and their rows stay; the ledger holds k Runs with the last one failed when
\* the failure marker was committed, k Runs with the last one running when
\* the commit of the failure marker failed, and k-1 Runs when the commit that
\* creates the Run of stage k failed
C6_FailureLeavesAuditTrail ==
  /\ [](\A i \in Invocations :
          inv[i].pc = "raised"
            => /\ inv[i].exc # NoExc
               /\ \A j \in DOMAIN inv[i].runs :
                    j < inv[i].k => ai_runs[inv[i].runs[j]].status = "success"
               /\ Len(inv[i].runs)
                    = IF inv[i].exc.origin = "create"
                      THEN inv[i].k - 1 ELSE inv[i].k
               /\ inv[i].exc.origin \in {"step_fn", "commit"}
                    => ai_runs[inv[i].runs[inv[i].k]].status = "failed"
               /\ inv[i].exc.origin = "failed_commit"
                    => ai_runs[inv[i].runs[inv[i].k]].status = "running")
  /\ [][\A i \in Invocations :
          inv[i].pc = "raised"
            => /\ inv'[i] = inv[i]
               /\ \A j \in DOMAIN inv[i].runs :
                    j < inv[i].k => RunRows(inv[i].runs[j])' = RunRows(inv[i].runs[j])]_vars

C6_Witness ==
  \E i \in Invocations :
    /\ inv[i].pc = "raised"
    /\ inv[i].k = 4
    /\ inv[i].exc.origin = "step_fn"
    /\ RunRows(inv[i].runs[2]) # {}

(***************************************************************************)
(* Properties of recomputation, concurrency and the two lists              *)
(***************************************************************************)
\* what a stored result row says, without its primary key
Payload(rows) ==
  {[f \in DOMAIN m \ {"id"} |-> m[f]] : m \in rows}

MatchesOf(r) == {m \in matrix_matches : m.ai_run_id = r}

RetrievalsOf(r) == {m \in patent_retrievals : m.ai_run_id = r}

C8_InvocationsIndependent ==
  /\ [][\A i \in Invocations :
          inv'[i] = inv[i]
            => \A k \in DOMAIN inv[i].runs :
                 RunRows(inv[i].runs[k])' = RunRows(inv[i].runs[k])]_vars
  /\ [](\A i \in Invocations :
          faults = 0
            => /\ inv[i].pc # "raised"
               /\ inv[i].pc = "done"
                    => /\ Payload(MatchesOf(inv[i].runs[4]))
                            = Payload(Range(step_matrix_match_rows(
                                       usage_requirements, matrix_rules,
                                       inv[i].runs[4], TxOf(i), PipelineParams)))
                       /\ Payload(RetrievalsOf(inv[i].runs[2]))
                            = Payload(Range(retrieval_rows(
                                       usage_requirements, patents,
                                       _build_faiss_from_db(patents),
                                       inv[i].runs[2], TxOf(i), TopKPatents))))

\* the hit of row m is in list b of the group of its rule
HitInBucket(call, m, b) ==
  \E k \in DOMAIN call.grouped :
    /\ call.grouped[k].key = _get_item_key(RuleRows[m.matrix_rule_id])
    /\ \E h \in DOMAIN call.grouped[k].hits[b] :
         call.grouped[k].hits[b][h].matrix_match_id = m.id

\* C9: a call of compute_two_lists puts the hit of every match of the run
\* in the core list of its group exactly when the usage requirement resolves
\* with source core, or does not resolve and the match_type is core_hit, and
\* in the expanded list exactly when it resolves with source expanded or
\* analyst_added, or does not resolve and the match_type is not core_hit
C9_SourceClassifiesHits ==
  [][two_list_call' # two_list_call /\ two_list_call'.error = "none"
       => \A m \in MatchesOf(two_list_call'.result.run_id) :
            m.matrix_rule_id \in matrix_rules
              => LET call == two_list_call'
                     resolved == m.usage_requirement_id
                                   \in UsagesOf(call.transaction_id)
                     source == UsageRows[m.usage_requirement_id].source
                 IN /\ HitInBucket(call, m, "core")
                         <=> \/ resolved /\ source = "core"
                             \/ ~resolved /\ m.match_type = "core_hit"
                    /\ HitInBucket(call, m, "expanded")
                         <=> \/ resolved
                                  /\ source \in {"expanded", "analyst_added"}
                             \/ ~resolved /\ m.match_type # "core_hit"]_vars

C9_Witness ==
  \E k1, k2 \in DOMAIN two_list_call.grouped :
    /\ \E h \in DOMAIN two_list_call.grouped[k1].hits.expanded :
         two_list_call.grouped[k1].hits.expanded[h].usage_source
           = "analyst_added"
    /\ \E h \in DOMAIN two_list_call.grouped[k2].hits.core :
         two_list_call.grouped[k2].hits.core[h].usage_source = "core"

KeysOf(items) == {items[k].key : k \in DOMAIN items}

\* C10: after a call of compute_two_lists a group is in intersection iff it
\* has a core-sourced and an expanded-sourced hit, in expanded_only iff it
\* has an expanded-sourced and no core-sourced hit, in neither list iff it
\* has only core-sourced hits; no group is in both lists, the lists hold
\* each group once and counts gives their lengths
C10_ListsPartitionGroups ==
  LET call == two_list_call
      res == call.result
  IN call.error = "none"
       => /\ \A k \in DOMAIN call.grouped :
               LET g == call.grouped[k]
                   has_core == g.hits.core # <<>>
                   has_exp == g.hits.expanded # <<>>
               IN /\ g.key \in KeysOf(res.intersection)
                       <=> has_core /\ has_exp
                  /\ g.key \in KeysOf(res.expanded_only)
                       <=> has_exp /\ ~has_core
                  /\ g.key \notin KeysOf(res.intersection)
                                    \cup KeysOf(res.expanded_only)
                       <=> has_core /\ ~has_exp
          /\ KeysOf(res.intersection) \cap KeysOf(res.expanded_only) = {}
          /\ KeysOf(res.intersection) \cup KeysOf(res.expanded_only)
               \subseteq KeysOf(call.grouped)
          /\ Cardinality(KeysOf(res.intersection)) = Len(res.intersection)
          /\ Cardinality(KeysOf(res.expanded_only)) = Len(res.expanded_only)
          /\ res.counts.intersection = Len(res.intersection)
          /\ res.counts.expanded_only = Len(res.expanded_only)

C10_Witness ==
  /\ two_list_call.result.counts.intersection = 1
  /\ two_list_call.result.counts.expanded_only = 2
  /\ two_list_call.result.counts.total_unique_items = 4

\* the matrix_match Runs of a transaction
MatchRunsOf(transaction_id) ==
  {r \in DOMAIN ai_runs : /\ ai_runs[r].transaction_id = transaction_id
                         /\ ai_runs[r].run_type = "matrix_match"}

\* C11: a call of compute_two_lists without run_id uses the matrix_match Run
\* of the transaction with the greatest id, and gives a ValueError and no
\* structure exactly when the transaction has no matrix_match Run
C11_LatestRunOrValueError ==
  [][two_list_call' # two_list_call /\ two_list_call'.run_id = 0
       => LET call == two_list_call'
              runs == MatchRunsOf(call.transaction_id)
          IN IF runs = {}
             THEN call.error = "ValueError" /\ call.result = NoCall.result
             ELSE /\ call.error = "none"
                  /\ call.result.run_id \in runs
                  /\ \A r \in runs : r <= call.result.run_id]_vars

C11_Witness ==
  /\ two_list_call.transaction_id = 1
  /\ two_list_call.run_id = 0
  /\ two_list_call.result.run_id = 11
  /\ MatchesOf(4) # {}
  /\ two_list_call.result.counts.total_unique_items > 0

\* C12: a call of compute_two_lists for a run without MatchResults (given,
\* or the latest of the transaction) does not raise and returns the counts
\* 0, 0, 0, two empty lists and a note
C12_EmptyRunGivesEmptyLists ==
  [][two_list_call' # two_list_call
       => LET call == two_list_call'
              rid == IF call.run_id # 0 THEN call.run_id
                     ELSE Max(MatchRunsOf(call.transaction_id))
          IN rid # 0 /\ MatchesOf(rid) = {}
               => /\ call.error = "none"
                  /\ call.result.run_id = rid
                  /\ call.result.counts
                       = [intersection |-> 0, expanded_only |-> 0,
                          total_unique_items |-> 0]
                  /\ call.result.intersection = <<>>
                  /\ call.result.expanded_only = <<>>
                  /\ call.result.note]_vars

C12_Witness ==
  /\ two_list_call.error = "none"
  /\ two_list_call.result.run_id = 7
  /\ two_list_call.result.note
  /\ MatchesOf(7) = {}
  /\ MatchesOf(8) # {}

C14_DecisionByThreshold ==
  \A i \in Invocations :
    inv[i].inputs # NoInputs
      => \A m \in MatchesOf(inv[i].run) :
           m.decision
             = IF ScoreAtLeast(m.match_score, inv[i].inputs.params.threshold)
               THEN "hit" ELSE "maybe"

\* the rules a computation scored for a usage requirement: those of the regime
\* with a non-empty tokenization
ScoredRules(inputs) ==
  {r \in inputs.rules : RuleRows[r].regime = inputs.params.regime
                          /\ RuleToks[r] # <<>>}

ScoreTable ==
  [u \in UsageIds |->
     [r \in RuleIds |-> _binary_cosine(UsageToks[u], RuleToks[r]).score]]

ScoreOf(u, r) == ScoreTable[u][r]

\* C15: for each usage requirement a computation of step_matrix_match
\* persists at most top_k_per_usage rows, one per rule, each with the rule's
\* score and a positive one; a rule left out has no higher score than a
\* persisted one, comes later in the catalog when the scores are equal, and
\* while fewer than top_k_per_usage rules of positive score are persisted
\* none of positive score is left out
C15_TopKPositiveStable ==
  \A i \in Invocations :
    inv[i].inputs # NoInputs
      => \A u \in inv[i].inputs.usages :
           LET rows == {m \in MatchesOf(inv[i].run) : m.usage_requirement_id = u}
               kept == {m.matrix_rule_id : m \in rows}
               out  == ScoredRules(inv[i].inputs) \ kept
           IN /\ Cardinality(rows) <= inv[i].inputs.params.top_k_per_usage
              /\ Cardinality(kept) = Cardinality(rows)
              /\ kept \subseteq ScoredRules(inv[i].inputs)
              /\ \A m \in rows :
                    /\ m.match_score = ScoreOf(u, m.matrix_rule_id)
                    /\ ScorePositive(m.match_score)
                    /\ \A r \in out :
                          /\ ~ScoreGreater(ScoreOf(u, r), m.match_score)
                          /\ ~ScoreGreater(m.match_score, ScoreOf(u, r))
                               => r > m.matrix_rule_id
              /\ Cardinality(rows) < inv[i].inputs.params.top_k_per_usage
                   => \A r \in out : ~ScorePositive(ScoreOf(u, r))
              /\ UsageToks[u] = <<>> => rows = {}

C15_Witness ==
  \E i \in Invocations :
    /\ inv[i].inputs # NoInputs
    /\ inv[i].inputs.params.top_k_per_usage = 1
    /\ inv[i].inputs.usages = {3, 4, 5}
    /\ {3, 6} \subseteq ScoredRules(inv[i].inputs)
    /\ {m.matrix_rule_id : m \in {x \in MatchesOf(inv[i].run) :
                                     x.usage_requirement_id = 4}} = {3}
    /\ ScoreOf(4, 6) = ScoreOf(4, 3)
    /\ UsageToks[5] = <<>>

\* a list is in the order of compute_two_lists: maximum score descending,
\* and label ascending among equal maximum scores
Ordered(list) ==
  \A k \in 1..(Len(list) - 1) :
    /\ ~ScoreGreater(list[k + 1].max_score, list[k].max_score)
    /\ ~ScoreGreater(list[k].max_score, list[k + 1].max_score)
         => ~LexLess(list[k + 1].item_label, list[k].item_label)

\* C16: the intersection list and the expanded_only list that
\* compute_two_lists returns are each ordered by the group's maximum match
\* score descending, and by the display label ascending among groups of
\* equal maximum score
C16_ListsOrdered ==
  two_list_call.error = "none"
    => /\ Ordered(two_list_call.result.intersection)
       /\ Ordered(two_list_call.result.expanded_only)

C16_Witness ==
  LET eo == two_list_call.result.expanded_only
      it == two_list_call.result.intersection
      g  == two_list_call.grouped
  IN /\ two_list_call.error = "none"
     /\ Len(eo) = 2
     /\ eo[1].max_score = eo[2].max_score
     /\ LexLess(eo[1].item_label, eo[2].item_label)
     /\ \E j, k \in DOMAIN g :
          j < k /\ g[j].item_label = eo[2].item_label
                /\ g[k].item_label = eo[1].item_label
     /\ Len(it) = 2
     /\ ScoreGreater(it[1].max_score, it[2].max_score)

\* C17: every RetrievalResult persisted on the fallback path has similarity 0
\* and a why different from the why of the rows that come from the search,
\* and with an empty patents table the stage raises only when the
\* environment fails
C17_FallbackTagged ==
  /\ \A i \in Invocations :
       \A m \in RetrievalsOf(inv[i].run) :
         m.usage_requirement_id \in inv[i].fallback
           => m.score = 0 /\ m.why # why_tag(TRUE)
  /\ patents = {}
       => \A i \in Invocations :
            inv[i].pc \in {"except", "raised"} => faults > 0

\* C18: the index an invocation loads has its vectors and its metadata from
\* one build
C18_LoadedIndexOfOneBuild ==
  \A i \in Invocations :
    inv[i].fa.builds.index = inv[i].fa.builds.meta

\* the posts of a call of _post_webhook
PostsOf(r) == SelectSeq(r.log, LAMBDA e : e.kind = "post")

\* the sleeps of a call of _post_webhook
SleepsOf(r) == SelectSeq(r.log, LAMBDA e : e.kind = "sleep")

\* a call of _post_webhook with the given retries made at most retries
\* posts, stopped at the first accepted one, slept between two posts, each
\* sleep twice as long as the one before, and raised exactly when every one
\* of the retries posts failed
RetriedWithBackoff(r, retries) ==
  LET posts == PostsOf(r)
      sleeps == SleepsOf(r)
  IN /\ Len(posts) <= retries
     /\ \A k \in 1..(Len(posts) - 1) : ~posts[k].ok
     /\ r.raised <=> /\ Len(posts) = retries
                     /\ \A k \in 1..Len(posts) : ~posts[k].ok
     /\ ~r.raised => r.log[Len(r.log)] = [kind |-> "post", ok |-> TRUE,
                                          delay |-> 0]
     /\ \A j \in 1..(Len(r.log) - 1) :
          (r.log[j].kind = "post") <=> (r.log[j + 1].kind = "sleep")
     /\ Len(sleeps) > 0 => sleeps[1].delay = 1
     /\ \A k \in 1..(Len(sleeps) - 1) :
          /\ sleeps[k + 1].delay = 2 * sleeps[k].delay
          /\ sleeps[k + 1].delay > sleeps[k].delay

\* C19: every call of _post_webhook makes at most `retries` attempts, returns
\* at the first attempt that succeeds, waits between consecutive attempts
\* with delays that double from the base delay, and raises once all attempts
\* have failed
C19_WebhookRetries ==
  \A i \in Invocations :
    /\ inv[i].wh # NoWebhook => RetriedWithBackoff(inv[i].wh, ResultRetries)
    /\ inv[i].wh_err # NoWebhook
         => RetriedWithBackoff(inv[i].wh_err, ErrorRetries)

C19_Witness ==
  \E i \in Invocations :
    /\ ~inv[i].wh.raised
    /\ inv[i].pc = "rq_returned"
    /\ Len(PostsOf(inv[i].wh)) = 3
    /\ [k \in 1..3 |-> PostsOf(inv[i].wh)[k].ok] = <<FALSE, FALSE, TRUE>>
    /\ [k \in 1..2 |-> SleepsOf(inv[i].wh)[k].delay] = <<1, 2>>
    /\ \E j \in Invocations : inv[j].wh.raised /\ Len(PostsOf(inv[j].wh)) = 3

\* the result webhook of request i failed on every attempt
DeliveryFailed(i) == inv[i].wh.raised

\* the results persisted for request i are those stored at completion: its
\* Runs are success, payload_out is the payload that was stored and sent,
\* and the rows of its Runs are those the stages persisted
ResultsIntact(i) ==
  LET p == eval_requests[i].payload_out
  IN /\ \A k \in DOMAIN inv[i].runs : ai_runs[inv[i].runs[k]].status = "success"
     /\ Len(inv[i].runs) = Len(StageOrder)
     /\ p = inv[i].webhook_body.payload
     /\ p.transaction_id = TxOf(i)
     /\ p.latest_matrix_ai_run_id \in {0, inv[i].runs[4]}
     /\ p.latest_patent_ai_run_id = inv[i].runs[2]
     /\ p.matrix_matches_top = MatchesOf(p.latest_matrix_ai_run_id)
     /\ p.patent_retrievals_top = RetrievalsOf(p.latest_patent_ai_run_id)

\* C20: when the result webhook has failed on every attempt, the except
\* clause records status error and the error text on the request, and the
\* Runs, MatchResults, RetrievalResults and payload_out stay as they were
\* persisted
C20_DeliveryFailureKeepsResults ==
  /\ [](\A i \in Invocations :
          DeliveryFailed(i)
            => /\ ResultsIntact(i)
               /\ inv[i].pc = "rq_raised"
                    => /\ eval_requests[i].status = "error"
                       /\ eval_requests[i].reason = "RuntimeError")
  /\ [][\A i \in Invocations :
          DeliveryFailed(i) /\ inv[i].pc = "rq_except"
                            /\ inv'[i].pc = "rq_raised"
            => /\ ai_runs' = ai_runs
               /\ matrix_matches' = matrix_matches
               /\ patent_retrievals' = patent_retrievals
               /\ eval_requests'[i].payload_out = eval_requests[i].payload_out]_vars

C20_Witness ==
  \E i \in Invocations :
    /\ DeliveryFailed(i)
    /\ inv[i].pc = "rq_raised"
    /\ eval_requests[i].status = "error"
    /\ eval_requests[i].payload_out.matrix_matches_top # {}
    /\ eval_requests[i].payload_out.patent_retrievals_top # {}

\* C21: the rule catalog is read-only to the matching engine: no step of
\* step_matrix_match, whether the stage then succeeds or fails, inserts,
\* updates or deletes a matrix_rules row
C21_CatalogReadOnlyToMatching ==
  [][(\E i \in Invocations :
        Stage(i) = "matrix_match"
        /\ inv[i].pc \in {"step", "mm_ingest", "mm_main"})
       => matrix_rules' = matrix_rules]_vars

(***************************************************************************)
(* Properties of the text functions                                        *)
(***************************************************************************)
\* C22: the similarity of _binary_cosine lies in [0,1]: it is the size of the
\* intersection of the two token sets over the root of the product of their
\* sizes, the squared size of the intersection never exceeds that product,
\* and with an empty set the score is 0 and no token is matched
C22_ScoreInUnitInterval ==
  text_call.fn = "_binary_cosine"
    => LET A == Range(text_call.a_tokens)
           B == Range(text_call.b_tokens)
           score == text_call.out.score
       IN /\ score.n >= 0 /\ score.d > 0
          /\ score.n * score.n <= score.d
          /\ Cardinality(A \cap B) * Cardinality(A \cap B)
               <= Cardinality(A) * Cardinality(B)
          /\ A # {} /\ B # {}
               => /\ score.n = Cardinality(A \cap B)
                  /\ score.d = Cardinality(A) * Cardinality(B)
          /\ A = {} \/ B = {}
               => score.n = 0 /\ text_call.out.matched = <<>>

C22_Witness ==
  /\ text_call.fn = "_binary_cosine"
  /\ Len(text_call.a_tokens) > Cardinality(Range(text_call.a_tokens))
  /\ text_call.out.score.n = 1
  /\ text_call.out.score.d = 2

\* C23: _binary_cosine is symmetric, and its score and matched tokens depend
\* on the sets of tokens only, not on their order or on repeated tokens
C23_Symmetric ==
  text_call.fn = "_binary_cosine"
    => LET a == text_call.a_tokens
           b == text_call.b_tokens
       IN /\ _binary_cosine(b, a) = text_call.out
          /\ \A a2 \in TokenLists :
               Range(a2) = Range(a)
                 => /\ _binary_cosine(a2, b) = text_call.out
                    /\ _binary_cosine(b, a2) = text_call.out

C23_Witness ==
  /\ text_call.fn = "_binary_cosine"
  /\ Len(text_call.a_tokens) > Cardinality(Range(text_call.a_tokens))
  /\ Range(text_call.a_tokens) # Range(text_call.b_tokens)
  /\ Len(text_call.out.matched) = 2
  /\ text_call.a_tokens[1] = text_call.out.matched[2]
  /\ text_call.b_tokens[1] # text_call.out.matched[1]

\* C24: token lists with the same non-empty set of tokens score exactly 1,
\* and the row of a usage requirement and a rule whose token sets are equal
\* gets decision hit for every threshold up to 1
C24_EqualSetsScoreOne ==
  /\ text_call.fn = "_binary_cosine"
     /\ text_call.a_tokens # <<>>
     /\ Range(text_call.a_tokens) = Range(text_call.b_tokens)
       => /\ text_call.out.score.n > 0
          /\ text_call.out.score.n * text_call.out.score.n
               = text_call.out.score.d
  /\ text_call.fn = "score_pair"
     /\ text_call.utoks # <<>>
     /\ Range(text_call.utoks) = Range(text_call.rtoks)
       => /\ text_call.scored
          /\ text_call.out.score.n * text_call.out.score.n
               = text_call.out.score.d
          /\ \A has_decision \in BOOLEAN, th \in ThresholdChoices :
               text_call.decision[has_decision][th] = "hit"

C24_Witness ==
  /\ text_call.fn = "score_pair"
  /\ text_call.scored
  /\ text_call.u_text # text_call.r_text
  /\ Cardinality(Range(text_call.utoks)) = 2
  /\ Range(text_call.utoks) = Range(text_call.rtoks)
  /\ text_call.decision[TRUE][FullThreshold] = "hit"

\* C25: _normalize_text is a fixed point of itself, and _tokenize gives for
\* the normalized text the tokens it gives for the text
C25_NormalizeFixedPoint ==
  /\ text_call.fn = "_normalize_text"
       => _normalize_text(text_call.out) = text_call.out
  /\ text_call.fn = "_tokenize"
       => _tokenize(_normalize_text(text_call.text)) = text_call.out

C25_Witness ==
  /\ text_call.fn = "_normalize_text"
  /\ text_call.text = <<"K", "nakaguro", "FW-">>
  /\ text_call.out = <<"k", " ", "-">>

\* contiguous substrings of n characters of the CJK range
CjkGrams(text, n) ==
  {g \in {SubSeq(text, i, i + n - 1) : i \in 1..(Len(text) - n + 1)} :
     Range(g) \subseteq JpChars}

\* among the matched tokens is a 2- or 3-character CJK substring that both
\* texts have
SharedGramMatched ==
  \E m \in Range(text_call.out.matched) :
    \E n \in {2, 3} :
      m \in CjkGrams(text_call.u_text, n) \cap CjkGrams(text_call.r_text, n)

\* what a usage text and a rule text that share a 2-character CJK substring
\* get: a positive score and such a token as evidence
SharedGramIsEvidence ==
  /\ text_call.scored
  /\ ScorePositive(text_call.out.score)
  /\ SharedGramMatched

\* C26 as stated: a usage text and a rule text that contain the same
\* 2-character substring inside a run of CJK-range characters score above 0
\* with a shared 2- or 3-character n-gram among the matched tokens
C26_SharedBigramScores ==
  text_call.fn = "score_pair"
  /\ CjkGrams(text_call.u_text, 2) \cap CjkGrams(text_call.r_text, 2) # {}
    => SharedGramIsEvidence

LatinTokens(toks) == {t \in Range(toks) : Range(t) \subseteq LatinChars}

\* C26 amended: the score is above 0 when the shared 2-character substring
\* does not contain the middle dot, which _normalize_text turns into a space,
\* and the evidence holds a shared n-gram when fewer Latin words are shared
\* than matched tokens are kept
C26_SharedBigramWithoutDotScores ==
  text_call.fn = "score_pair"
  /\ (\E g \in CjkGrams(text_call.u_text, 2) \cap CjkGrams(text_call.r_text, 2) :
        "nakaguro" \notin Range(g))
    => /\ text_call.scored
       /\ ScorePositive(text_call.out.score)
       /\ Cardinality(LatinTokens(text_call.utoks)
                        \cap LatinTokens(text_call.rtoks)) < MatchedLimit
            => SharedGramMatched

C26_Witness ==
  /\ text_call.fn = "score_pair"
  /\ text_call.scored
  /\ "nakaguro" \in Range(text_call.u_text)
  /\ "k" \in Range(text_call.r_text)
  /\ text_call.out.score.n = 1
  /\ text_call.out.score.d = 2
  /\ text_call.out.matched = << <<"ro", "ko">> >>

\* the hit records of the groups a call returned
ReturnedHits(call) ==
  UNION {Range(item.hits.core) \cup Range(item.hits.expanded) :
           item \in Range(call.result.intersection)
                      \cup Range(call.result.expanded_only)}

\* C28: a call of compute_two_lists with an explicit run_id returns match
\* records of its transaction only: every returned hit is a MatchResult of a
\* matrix_match Run of transaction_id for a usage requirement of
\* transaction_id, whatever run_id the caller passes
C28_ExplicitRunOfTransaction ==
  [][two_list_call' # two_list_call /\ two_list_call'.run_id # 0
       => \A hit \in ReturnedHits(two_list_call') :
            \A m \in matrix_matches :
              m.id = hit.matrix_match_id
                => /\ ai_runs[m.ai_run_id].transaction_id
                        = two_list_call'.transaction_id
                   /\ ai_runs[m.ai_run_id].run_type = "matrix_match"
                   /\ UsageRows[m.usage_requirement_id].transaction_id
                        = two_list_call'.transaction_id]_vars

(***************************************************************************)
(* Properties of the external evaluation requests                          *)
(***************************************************************************)
\* queued, then running, then completed or error
StatusRank(status) ==
  IF status = "queued" THEN 0 ELSE IF status = "running" THEN 1 ELSE 2

\* C27: the status of a request only moves forward through queued, running,
\* then completed or error; a request committed as completed keeps that
\* status whatever happens to the delivery of its notification
C27_StatusOnlyForward ==
  [][\A i \in DOMAIN eval_requests :
       eval_requests'[i].status # eval_requests[i].status
         => StatusRank(eval_requests[i].status)
              < StatusRank(eval_requests'[i].status)]_vars

\* the rows of the latest successful matrix_match Run of request i
LatestMatchResults(i) ==
  MatchesOf(_latest_ai_run_id(TxOf(i), "matrix_match", FALSE))

\* C29: on the success path the status sent in the webhook is never
\* controlled or non_controlled: it is needs_more_info exactly when the
\* latest successful matrix_match Run of the request has no MatchResults,
\* and needs_review otherwise
C29_WebhookStatus ==
  \A i \in Invocations :
    inv[i].webhook_body # NoWebhookBody
      => /\ inv[i].webhook_body.status \notin {"controlled", "non_controlled"}
         /\ inv[i].webhook_body.status =
              IF LatestMatchResults(i) = {} THEN "needs_more_info"
              ELSE "needs_review"

\* C30: whenever a step of process_external_request raises after the request
\* row was found, the except clause leaves the request with status error and
\* the exception text as reason, the exception that was caught propagates to
\* the caller whether or not the error webhook was delivered, and the
\* session is closed
C30_FailureRecorded ==
  [][\A i \in Invocations :
       inv[i].pc \in {"raised", "rq_except"} /\ inv'[i].pc = "rq_raised"
         => /\ eval_requests'[i].status = "error"
            /\ eval_requests'[i].reason = inv[i].exc.kind
            /\ inv'[i].exc = inv[i].exc
            /\ inv'[i].db_closed]_vars
====
